---- MODULE Spec2Model ----
(***************************************************************************)
(* The reactive graph of deft-plus/fragment (signal/_graph.ts, signal.ts,  *)
(* memo.ts, watch.ts, effect.ts, untracked.ts) as a state machine.         *)
(*                                                                         *)
(* A "program" is a fixed set of writable signals, memoized signals and    *)
(* effects taken from the repository's tests; Init picks one program, and  *)
(* the actions are the calls user code can make at top level (set, update, *)
(* mutate, read, effect(), destroy) plus the deferred microtask that runs  *)
(* executeQueue.  Every handler runs to completion inside one action, as   *)
(* JavaScript is single-threaded; nested calls (a memo read that           *)
(* recomputes other memos, a notification that walks the consumers) are    *)
(* RECURSIVE operators that thread the whole program state as a record.    *)
(*                                                                         *)
(* The source snapshot names the same two methods differently in different *)
(* files: ReactiveNode.hasDependenciesChanged (_graph.ts) is called        *)
(* checkDependencies in memo.ts and haveDependenciesChanged in watch.ts,   *)
(* and ReactiveNode.onProducerMayChanged (_graph.ts) is overridden in      *)
(* memo.ts under the name updateProducerValueVersion.  They are modelled   *)
(* as one method each.                                                     *)
(***************************************************************************)
EXTENDS Integers, Sequences, FiniteSets, TLC

\* ------------------------------------------------------------- bounds ----
\* Number of write calls (set / update / mutate) a behaviour may make.
MaxWrites == 2
\* Writable signals hold integers in 0..MaxVal.
MaxVal == 2

\* ----------------------------------------------------------- programs ----
\* The programs the model is run on, each taken from a test of the repository:
\*   memo       memo_test.ts "should allow to create a memoized signal"
\*   effect     effect_test.ts "should listen for signal changes", "should
\*              stop an effect when destroyed"; signal_test.ts "should batch"
\*   throwing   two effects on two signals, one of which throws at ThrowAt
\*   parity     memo_test.ts "should not update dependencies of computations
\*              when dependencies don't change" (isEven and updateTracker),
\*              isEven being observed by an effect too
\*   cond       memo_test.ts "should allow to use a signal as a condition"
\*   cycle      memo_test.ts "should throw if it having a circular dependency"
\*   untracked  untracked_test.ts, signal_test.ts "should not make
\*              surrounding effect depend on the signal"
\*   error      memo_test.ts "should cache exceptions thrown ..."
\*   writer     an effect that copies one signal into another, which a
\*              second effect reads (effect.ts allowSignalWrites)
\*   hook       a signal whose onChange option throws at OnChangeThrowAt,
\*              read by a memo and by an effect
\*   readonly   signal_test.ts "should subscribe to readonly signals", the
\*              view being read by an effect
\*   promise    promise_test.ts: createPromiseSignal of one promise
\*   diamond    two memos computed from one signal and a third computed from
\*              both, each of the three read at top level
\*   diamondfx  the same diamond, the third memo being read by an effect
\*              and at top level
\*   uncycle    two memos that read each other while a flag is set:
\*              k1 = flag() ? k2() : 0, k2 = k1() + 1
\*   equalfn    memo_test.ts "should allow to use memoized values with
\*              different equals fn"
\*   sched      promise_test.ts describe('Watch'): a watch made with
\*              new Watch(callback, schedule) and driven by notify() and
\*              run(), whose schedule function reads a memo
\*   fifo       three effects on one source, the second of which writes a
\*              signal the first one reads (effect.ts queueEffect and
\*              executeQueue with more than two watches in the queue)
\*   eqthrow    memo_test.ts "should allow to use memoized values with
\*              different equals fn", the equal option being a function
\*              that throws
\*   selfdestroy an effect whose callback calls destroy() on its own
\*              EffectRef once the signal it reads is set
\*   errchain   memo_test.ts "should cache exceptions thrown ..." behind the
\*              isEven memo of "should not update dependencies ...": a memo
\*              that throws while the parity of the signal is even
Progs == {"memo", "effect", "throwing", "parity", "cond", "cycle",
          "untracked", "error", "writer", "hook", "readonly", "promise",
          "diamond", "diamondfx", "uncycle", "sched", "equalfn", "fifo",
          "errchain", "eqthrow", "selfdestroy"}

\* signal/signal.ts createSignal calls of each program.
Signals(p) ==
  CASE p = "memo"      -> {"c"}
    [] p = "effect"    -> {"s"}
    [] p = "throwing"  -> {"t", "o"}
    [] p = "parity"    -> {"n"}
    [] p = "cond"      -> {"cnd", "a", "b"}
    [] p = "cycle"     -> {}
    [] p = "untracked" -> {"u", "g"}
    [] p = "error"     -> {"z"}
    [] p = "writer"    -> {"src", "dst"}
    [] p = "hook"      -> {"h"}
    [] p = "readonly"  -> {"rw"}
    [] p = "promise"   -> {"ps"}
    [] p = "diamond"   -> {"da"}
    [] p = "diamondfx" -> {"da"}
    [] p = "uncycle"   -> {"flag"}
    [] p = "sched"     -> {"q"}
    [] p = "equalfn"   -> {"qc"}
    [] p = "fifo"      -> {"fs", "fd"}
    [] p = "errchain"  -> {"xs"}
    [] p = "eqthrow"   -> {"ys"}
    [] p = "selfdestroy" -> {"zs"}

\* signal/memo.ts createMemoSignal calls of each program.
Memos(p) ==
  CASE p = "memo"      -> {"d"}
    [] p = "effect"    -> {}
    [] p = "throwing"  -> {}
    [] p = "parity"    -> {"even", "ut"}
    [] p = "cond"      -> {"m"}
    [] p = "cycle"     -> {"m1", "m2"}
    [] p = "untracked" -> {"mu"}
    [] p = "error"     -> {"em"}
    [] p = "writer"    -> {}
    [] p = "hook"      -> {"hd"}
    [] p = "readonly"  -> {}
    [] p = "promise"   -> {}
    [] p = "diamond"   -> {"db", "dc", "dd"}
    [] p = "diamondfx" -> {"db", "dc", "dd"}
    [] p = "uncycle"   -> {"k1", "k2"}
    [] p = "sched"     -> {"qm"}
    [] p = "equalfn"   -> {"qg"}
    [] p = "fifo"      -> {}
    [] p = "errchain"  -> {"xp", "xe"}
    [] p = "eqthrow"   -> {"ym"}
    [] p = "selfdestroy" -> {}

\* signal/effect.ts effect() calls each program may make.
Effects(p) ==
  CASE p = "memo"      -> {}
    [] p = "effect"    -> {"ec"}
    [] p = "throwing"  -> {"et", "eo"}
    [] p = "parity"    -> {"ee"}
    [] p = "cond"      -> {"em_m"}
    [] p = "cycle"     -> {}
    [] p = "untracked" -> {"eu"}
    [] p = "error"     -> {}
    [] p = "writer"    -> {"er", "ew"}
    [] p = "hook"      -> {"eh"}
    [] p = "readonly"  -> {"ero"}
    [] p = "promise"   -> {}
    [] p = "diamond"   -> {}
    [] p = "diamondfx" -> {"ed"}
    [] p = "uncycle"   -> {}
    [] p = "sched"     -> {}
    [] p = "equalfn"   -> {}
    [] p = "fifo"      -> {"fa", "fb", "fc"}
    [] p = "errchain"  -> {}
    [] p = "eqthrow"   -> {}
    [] p = "selfdestroy" -> {"ez"}

\* The watches each program makes itself with new Watch(callback, schedule).
Watches(p) == IF p = "sched" THEN {"wq"} ELSE {}

\* The Watch objects of a program.
WatchNodes(p) == Effects(p) \cup Watches(p)

\* The effects whose EffectRef the program keeps, to call destroy() on.
Destroyable(p) == IF p = "effect" THEN {"ec"} ELSE {}

\* The programs that call resetEffects() (promise_test.ts "should reset all
\* active effects").
Resets(p) == p = "effect"

\* The memos the program may let go of: nothing but the program refers to
\* them (no compute function or callback reads them), so once the program
\* drops its reference the garbage collector may reclaim them.
Droppable(p) ==
  CASE p = "memo"     -> {"d"}
    [] p = "errchain" -> {"xe"}
    [] OTHER          -> {}

\* The writable signals the program keeps to itself: createPromiseSignal
\* returns signal.readonly() only.
Hidden(p) == IF p = "promise" THEN {"ps"} ELSE {}

\* The writable signals the program calls set / update / mutate on at top
\* level (fd of program fifo is written by an effect only).
Writable(p) == Signals(p) \ (Hidden(p) \cup (IF p = "fifo" THEN {"fd"} ELSE {}))

\* The signals and memos the program calls at top level.
Readable(p) ==
  CASE p = "diamond"   -> Memos(p)
    [] p = "diamondfx" -> {"dd"}
    [] p = "fifo"      -> {}
    [] p \in {"effect", "throwing", "writer", "readonly"} -> Writable(p)
    [] OTHER           -> Memos(p)

\* The signals whose readonly() the program calls.
Views(p) == IF p = "readonly" THEN {"rw"} ELSE {}

NodesOf(p) == Signals(p) \cup Memos(p) \cup WatchNodes(p)

AllSignals == UNION {Signals(p) : p \in Progs}
AllMemos == UNION {Memos(p) : p \in Progs}
AllEffects == UNION {Effects(p) : p \in Progs}

\* The variant of a ReactiveNode.
Kind(n) ==
  IF n \in AllSignals THEN "signal"
  ELSE IF n \in AllMemos THEN "memo" ELSE "watch"

\* activeConsumer === null
NoNode == "null"
\* A slot of a Map / Set whose entry was deleted while an iteration may still
\* be in progress (JavaScript Map and Set iterate by slot, in insertion
\* order, and visit entries appended during the iteration).
Hole == "hole"

\* -------------------------------------------------------- expressions ----
\* The bodies of compute functions and effect callbacks.
Read(n) == [op |-> "read", n |-> n]
UntrackedE(e) == [op |-> "untracked", a |-> e]
Mul2(e) == [op |-> "mul2", a |-> e]
Add(l, r) == [op |-> "add", a |-> l, b |-> r]
IsEven(e) == [op |-> "isEven", a |-> e]
IfE(c, t, e) == [op |-> "if", a |-> c, b |-> t, c |-> e]
ThrowIfZero(e) == [op |-> "throwIfZero", a |-> e]
ThrowIfEq(e, k) == [op |-> "throwIfEq", a |-> e, k |-> k]
SetE(n, e) == [op |-> "set", n |-> n, a |-> e]
ViewRead(n) == [op |-> "viewRead", n |-> n]
Const(k) == [op |-> "const", k |-> k]
ThenCountUp(e) == [op |-> "thenCountUp", a |-> e]
DestroyE(w) == [op |-> "destroy", n |-> w]

\* The compute function of each memo.
Compute(n) ==
  CASE n = "d"    -> Mul2(Read("c"))
    [] n = "even" -> IsEven(Read("n"))
    [] n = "ut"   -> ThenCountUp(Read("even"))
    [] n = "m"    -> IfE(Read("cnd"), Read("a"), Read("b"))
    [] n = "m1"   -> Mul2(Read("m2"))
    [] n = "m2"   -> Read("m1")
    [] n = "mu"   -> Add(Read("g"), UntrackedE(Read("u")))
    [] n = "em"   -> ThrowIfZero(Read("z"))
    [] n = "hd"   -> Mul2(Read("h"))
    [] n = "db"   -> Mul2(Read("da"))
    [] n = "dc"   -> Add(Read("da"), Const(1))
    [] n = "dd"   -> Add(Read("db"), Read("dc"))
    [] n = "k1"   -> IfE(Read("flag"), Read("k2"), Const(0))
    [] n = "k2"   -> Add(Read("k1"), Const(1))
    [] n = "qm"   -> Mul2(Read("q"))
    [] n = "qg"   -> Mul2(Read("qc"))
    [] n = "xp"   -> IsEven(Read("xs"))
    [] n = "xe"   -> ThrowIfEq(Read("xp"), 1)
    [] n = "ym"   -> Mul2(Read("ys"))

\* The value at which the callback of effect "et" throws.
ThrowAt == 0

\* The body of each effect callback; the value it yields is what the
\* callback pushes to its log.
Callback(e) ==
  CASE e = "ec"   -> Read("s")
    [] e = "et"   -> ThrowIfEq(Read("t"), ThrowAt)
    [] e = "eo"   -> Read("o")
    [] e = "ee"   -> Read("even")
    [] e = "em_m" -> Read("m")
    [] e = "eu"   -> UntrackedE(Read("u"))
    [] e = "er"   -> Read("dst")
    [] e = "ew"   -> SetE("dst", Read("src"))
    [] e = "eh"   -> Read("h")
    [] e = "ero"  -> ViewRead("rw")
    [] e = "ed"   -> Read("dd")
    [] e = "wq"   -> Read("q")
    [] e = "fa"   -> Add(Read("fs"), Read("fd"))
    [] e = "fb"   -> SetE("fd", Read("fs"))
    [] e = "fc"   -> Read("fs")
    [] e = "ez"   -> IfE(Read("zs"), DestroyE("ez"), Const(0))

\* The body of the schedule function given to new Watch.
Hook(w) == CASE w = "wq" -> Read("qm")

\* Whether the callback returns a cleanup function.
ReturnsCleanup(e) == e \in {"ec", "et", "ee", "eu", "ez"}

\* The equal option of each signal and memo; "object" is the default
\* function on a signal that holds objects.
EqualOpt(n) ==
  IF n \in {"g", "qg"} THEN "gte"
  ELSE IF n = "ps" THEN "object"
  ELSE IF n = "ym" THEN "throws" ELSE "default"

\* Whether the equal option throws when it is called.
EqualThrows(opt) == opt = "throws"

\* Whether the node was created with an onChange option.
HasOnChange(n) == n \in {"c", "g", "d", "h"}

\* The value at which the onChange option of signal "h" throws.
OnChangeThrowAt == 1

\* Whether the onChange option of n throws when called with v.
OnChangeThrows(n, v) == n = "h" /\ v = OnChangeThrowAt

\* promise.ts PromiseValue<T>
Pending == [status |-> "pending"]
Fulfilled(v) == [status |-> "fulfilled", value |-> v]
Rejected(e) == [status |-> "rejected", error |-> e]

\* What the promise of the program resolves with or rejects with.
PromisedValue == 7
PromisedError == 9

\* The first argument of createSignal.
InitialValue(n) == IF n = "ps" THEN Pending ELSE IF n = "flag" THEN 1 ELSE 0

\* ------------------------------------------------------------- values ----
\* MemoizedValue<T>: a value or one of the symbols UNSET, COMPUTING, ERRORED.
Val(v) == [t |-> "VAL", v |-> v]
UNSET == [t |-> "UNSET", v |-> 0]
COMPUTING == [t |-> "COMPUTING", v |-> 0]
ERRORED == [t |-> "ERRORED", v |-> 0]

\* What a caller gets when a memo hands out one of its symbols as a value.
SymbolAsValue == 0 - 1

\* NOOP_CLEANUP; any other cleanupFn is the number of the callback
\* execution that returned it.
NOOP_CLEANUP == 0

\* _api.ts defaultEquals on primitives (Object.is) and on objects (never
\* equal), and the comparator of memo_test.ts "different equals fn".
Equal(opt, a, b) ==
  IF opt = "gte" THEN a >= b ELSE IF opt = "object" THEN FALSE ELSE a = b

\* An observable step taken during the current handler.
Ev(type, node, k, v) == [type |-> type, node |-> node, k |-> k, v |-> v]

\* Results of calls that may throw.
Ok(s, v) == [st |-> s, ok |-> TRUE, v |-> v, err |-> "none"]
Throw(s, e) == [st |-> s, ok |-> FALSE, v |-> 0, err |-> e]

Log(s, e) == [s EXCEPT !.ev = Append(@, e)]

\* ------------------------------------------------ Map / Set of node ids ----
MapHas(m, k) == \E i \in 1..Len(m) : m[i] = k
MapDelete(m, k) == [i \in 1..Len(m) |-> IF m[i] = k THEN Hole ELSE m[i]]
MapAdd(m, k) == IF MapHas(m, k) THEN m ELSE Append(m, k)
Compact(m) == SelectSeq(m, LAMBDA x : x # Hole)
MapKeys(m) == {m[i] : i \in 1..Len(m)} \ {Hole}

\* ------------------------------------------------------ nested calls ----
\* A call made from inside a handler.  The methods of the graph call each
\* other recursively (a read validates producers, which read in turn), so
\* every nested call goes through the one recursive operator Call, defined
\* after the methods, which dispatches on the method name.
RECURSIVE Call(_, _)
DoEval(s, e) == Call(s, [f |-> "Eval", e |-> e])
DoReadNode(s, n) == Call(s, [f |-> "ReadNode", n |-> n])
DoUpdateProducerValueVersion(s, n) ==
  Call(s, [f |-> "UpdateProducerValueVersion", n |-> n])
DoHasDependenciesChanged(s, c, i) ==
  Call(s, [f |-> "HasDependenciesChanged", n |-> c, i |-> i])
DoCheckValueChanged(s, p, v) ==
  Call(s, [f |-> "CheckValueChanged", n |-> p, v |-> v])
DoRecomputeValue(s, n) == Call(s, [f |-> "RecomputeValue", n |-> n])
DoNotifyConsumers(s, p) == Call(s, [f |-> "NotifyConsumers", n |-> p])
DoNotifyLoop(s, p, i) == Call(s, [f |-> "NotifyLoop", n |-> p, i |-> i])
DoOnDependencyChange(s, c) == Call(s, [f |-> "OnDependencyChange", n |-> c])
DoWatchRun(s, w) == Call(s, [f |-> "WatchRun", n |-> w])
DoExecuteQueueLoop(s, i) == Call(s, [f |-> "ExecuteQueueLoop", i |-> i])
DoSignalSet(s, n, v) == Call(s, [f |-> "SignalSet", n |-> n, v |-> v])
DoDestroyEffect(s, w) == Call(s, [f |-> "DestroyEffect", n |-> w])

\* What a tracking pass reads: accessed[<<p, c>>] is the valueVersion p had
\* when consumer c last read it in c's latest pass.  A pass starts where
\* trackingVersion is incremented.
StartPass(s, c) ==
  [s EXCEPT !.trackingVersion[c] = @ + 1,
            !.accessed = [x \in {y \in DOMAIN @ : y[2] # c} |-> @[x]]]
NoteAccess(s, p, c) ==
  [s EXCEPT !.accessed = [x \in (DOMAIN @) \cup {<<p, c>>} |->
                            IF x = <<p, c>> THEN s.valueVersion[p] ELSE @[x]]]

\* ---------------------------------------------------------- _graph.ts ----
\* setActiveConsumer
SetActiveConsumer(s, consumer) == [s EXCEPT !.activeConsumer = consumer]

\* WeakRef.deref() on the ref of node n: undefined once n was collected.
Undefined == "undefined"
\* A WeakRef that always resolves.
Deref_Alive(s, n) == n
Deref(s, n) == IF n \in s.collected THEN Undefined ELSE n

\* A traversal that never finds a Dependency stale.
IsStaleDependency_Never(consumerVersion, trackingVersion) == FALSE

\* The staleness test both traversals apply to a Dependency (every node of
\* a program is strongly held by the program, so deref() never fails).
IsStaleDependency(consumerVersion, trackingVersion) ==
  consumerVersion # trackingVersion

\* A prune that deletes the edge from the producer's side only.
DeleteDependency_ConsumersOnly(s, p, c) ==
  [Log(s, Ev("prune", c, 0, 0)) EXCEPT !.consumers[p] = MapDelete(@, c)]

\* this.producers.delete(p); producer?.consumers.delete(c), and the mirror
\* image in notifyConsumers.  The maps of a collected node are kept as they
\* were when it was collected, and lose the edge with the other side.
DeleteDependency(s, p, c) ==
  [Log(s, Ev("prune", c, 0, 0)) EXCEPT
     !.producers[c] = MapDelete(@, p),
     !.consumers[p] = MapDelete(@, c),
     !.dep = [x \in (DOMAIN @) \ {<<p, c>>} |-> @[x]]]

\* recordAccess without the test of the notifying flag.
RecordAccess_NoNotifyCheck(s, p) ==
  IF s.activeConsumer = NoNode THEN Ok(s, 0)
  ELSE LET c == s.activeConsumer
           d == [producerVersion |-> s.valueVersion[p],
                 consumerVersion |-> s.trackingVersion[c]]
       IN IF ~MapHas(s.producers[c], p)
          THEN Ok([s EXCEPT !.producers[c] = MapAdd(@, p),
                            !.consumers[p] = MapAdd(@, c),
                            !.dep = [x \in (DOMAIN @) \cup {<<p, c>>} |->
                                       IF x = <<p, c>> THEN d ELSE @[x]]], 0)
          ELSE Ok([s EXCEPT !.dep[<<p, c>>] = d], 0)

\* recordAccess leaving an edge it finds as it is.
RecordAccess_NoRefresh(s, p) ==
  IF s.notifying THEN Throw(s, "ReadDuringNotify")
  ELSE IF s.activeConsumer = NoNode THEN Ok(s, 0)
  ELSE LET c == s.activeConsumer
           d == [producerVersion |-> s.valueVersion[p],
                 consumerVersion |-> s.trackingVersion[c]]
       IN IF ~MapHas(s.producers[c], p)
          THEN Ok([s EXCEPT !.producers[c] = MapAdd(@, p),
                            !.consumers[p] = MapAdd(@, c),
                            !.dep = [x \in (DOMAIN @) \cup {<<p, c>>} |->
                                       IF x = <<p, c>> THEN d ELSE @[x]]], 0)
          ELSE Ok(s, 0)

\* ReactiveNode.recordAccess
RecordAccess(s, p) ==
  IF s.notifying THEN Throw(s, "ReadDuringNotify")
  ELSE IF s.activeConsumer = NoNode THEN Ok(s, 0)
  ELSE LET c == s.activeConsumer
           d == [producerVersion |-> s.valueVersion[p],
                 consumerVersion |-> s.trackingVersion[c]]
       IN IF ~MapHas(s.producers[c], p)
          THEN Ok([s EXCEPT !.producers[c] = MapAdd(@, p),
                            !.consumers[p] = MapAdd(@, c),
                            !.dep = [x \in (DOMAIN @) \cup {<<p, c>>} |->
                                       IF x = <<p, c>> THEN d ELSE @[x]]], 0)
          ELSE Ok([s EXCEPT !.dep[<<p, c>>] = d], 0)

\* queueEffect putting the watch at the front of executionQueue.
QueueEffect_Front(s, w) ==
  IF MapHas(s.executionQueue, w) \/ w \notin s.activeEffects THEN s
  ELSE LET s1 == [s EXCEPT !.executionQueue = <<w>> \o @]
       IN IF ~s1.pendingQueue
          THEN [s1 EXCEPT !.microtasks = @ + 1, !.pendingQueue = TRUE]
          ELSE s1

\* effect.ts queueEffect
QueueEffect(s, w) ==
  IF MapHas(s.executionQueue, w) \/ w \notin s.activeEffects THEN s
  ELSE LET s1 == [s EXCEPT !.executionQueue = MapAdd(@, w)]
       IN IF ~s1.pendingQueue
          THEN [s1 EXCEPT !.microtasks = @ + 1, !.pendingQueue = TRUE]
          ELSE s1

\* this.schedule(this): queueEffect for the watches of effect(), the
\* program's own function for the others.
Schedule(s, w) ==
  IF w \in AllEffects THEN Ok(QueueEffect(s, w), 0) ELSE DoEval(s, Hook(w))

\* Watch.notify: the scheduler is called only when the watch is not dirty,
\* and a scheduler that throws leaves dirty as it was.
WatchNotify(s, w) ==
  IF s.dirty[w] THEN Ok(s, 0)
  ELSE LET r == Schedule(Log([s EXCEPT !.hookCalls[w] = IF @ < 2 THEN @ + 1 ELSE @],
                              Ev("schedule", w, 0, 0)), w)
       IN IF ~r.ok THEN r ELSE Ok([r.st EXCEPT !.dirty[w] = TRUE], 0)

\* ReactiveNode.notifyConsumers: try { for ... } finally { notifying = ... }
NotifyConsumers(s, p) ==
  LET wasNotifying == s.notifying
      r == DoNotifyLoop([s EXCEPT !.notifying = TRUE], p, 1)
  IN [r EXCEPT !.st = [@ EXCEPT !.notifying = wasNotifying]]

\* notifyConsumers stopping after the first slot of this.consumers.
NotifyLoop_FirstOnly(s, p, i) ==
  IF i > 1 \/ i > Len(s.consumers[p]) THEN Ok(s, 0)
  ELSE LET c == s.consumers[p][i]
       IN IF c = Hole THEN DoNotifyLoop(s, p, i + 1)
          ELSE IF \/ Deref(s, c) = Undefined
                  \/ IsStaleDependency(s.dep[<<p, c>>].consumerVersion,
                                       s.trackingVersion[c])
          THEN DoNotifyLoop(DeleteDependency(s, p, c), p, i + 1)
          ELSE LET r == DoOnDependencyChange(s, c)
               IN IF ~r.ok THEN r ELSE DoNotifyLoop(r.st, p, i + 1)

\* The for-of loop of notifyConsumers, at slot i of this.consumers; an
\* exception from onDependencyChange ends the loop.
NotifyLoop(s, p, i) ==
  IF i > Len(s.consumers[p]) THEN Ok(s, 0)
  ELSE LET c == s.consumers[p][i]
       IN IF c = Hole THEN DoNotifyLoop(s, p, i + 1)
          ELSE IF \/ Deref(s, c) = Undefined
                  \/ IsStaleDependency(s.dep[<<p, c>>].consumerVersion,
                                       s.trackingVersion[c])
          THEN DoNotifyLoop(DeleteDependency(s, p, c), p, i + 1)
          ELSE LET r == DoOnDependencyChange(s, c)
               IN IF ~r.ok THEN r ELSE DoNotifyLoop(r.st, p, i + 1)

\* A memo that recomputes as soon as it is notified.
OnDependencyChange_Eager(s, c) ==
  LET s0 == Log(s, Ev("onDependencyChange", c, 0, 0))
  IN CASE Kind(c) = "signal" -> Ok(s0, 0)
       [] Kind(c) = "watch" -> WatchNotify(s0, c)
       [] Kind(c) = "memo" ->
            IF s0.stale[c] THEN Ok(s0, 0)
            ELSE LET r == DoNotifyConsumers([s0 EXCEPT !.stale[c] = TRUE], c)
                 IN IF ~r.ok THEN r ELSE DoRecomputeValue(r.st, c)

\* A memo that marks itself stale without notifying its own consumers.
OnDependencyChange_NoPropagate(s, c) ==
  LET s0 == Log(s, Ev("onDependencyChange", c, 0, 0))
  IN CASE Kind(c) = "signal" -> Ok(s0, 0)
       [] Kind(c) = "watch" -> WatchNotify(s0, c)
       [] Kind(c) = "memo" -> Ok([s0 EXCEPT !.stale[c] = TRUE], 0)

\* onDependencyChange of the three variants (signal.ts 56-58, memo.ts 74-81,
\* watch.ts 35-37).
OnDependencyChange(s, c) ==
  LET s0 == Log(s, Ev("onDependencyChange", c, 0, 0))
  IN CASE Kind(c) = "signal" -> Ok(s0, 0)
       [] Kind(c) = "watch" -> WatchNotify(s0, c)
       [] Kind(c) = "memo" ->
            IF s0.stale[c] THEN Ok(s0, 0)
            ELSE DoNotifyConsumers([s0 EXCEPT !.stale[c] = TRUE], c)

\* ------------------------------------------------------------ memo.ts ----

\* createUntrackedSignal leaving the active consumer in place.
Untracked_KeepsConsumer(s, e) == DoEval(s, e)

\* untracked.ts createUntrackedSignal: the try/finally around readFn.
Untracked(s, e) ==
  LET previousConsumer == s.activeConsumer
      r == DoEval(SetActiveConsumer(s, NoNode), e)
  IN [r EXCEPT !.st = SetActiveConsumer(@, previousConsumer)]

\* The ReadonlySignal that does not exist yet (readonlySignal undefined).
NoView == 0

\* The keys markAsSignal puts on a readonly view (signal.ts 91-93).
ViewKeys == {"untracked"}

\* readonly() making a new view on every call.
SignalReadonly_AlwaysNew(s, n) ==
  Ok([s EXCEPT !.viewsMade = @ + 1, !.readonlySignal[n] = s.viewsMade + 1],
     s.viewsMade + 1)

\* WritableSignalImpl.readonly; views are numbered as they are made.
SignalReadonly(s, n) ==
  IF s.readonlySignal[n] = NoView
  THEN Ok([s EXCEPT !.viewsMade = @ + 1, !.readonlySignal[n] = s.viewsMade + 1],
          s.viewsMade + 1)
  ELSE Ok(s, s.readonlySignal[n])

\* The JavaScript expressions of compute functions and callbacks, evaluated
\* left to right; an exception ends the evaluation.
Eval(s, e) ==
  CASE e.op = "read" -> DoReadNode(s, e.n)
    [] e.op = "const" -> Ok(s, e.k)
    [] e.op = "untracked" -> Untracked(s, e.a)
    [] e.op = "mul2" ->
         LET r == DoEval(s, e.a) IN IF r.ok THEN Ok(r.st, r.v * 2) ELSE r
    [] e.op = "isEven" ->
         LET r == DoEval(s, e.a)
         IN IF r.ok THEN Ok(r.st, IF r.v % 2 = 0 THEN 1 ELSE 0) ELSE r
    [] e.op = "add" ->
         LET l == DoEval(s, e.a)
         IN IF ~l.ok THEN l
            ELSE LET r == DoEval(l.st, e.b)
                 IN IF r.ok THEN Ok(r.st, l.v + r.v) ELSE r
    [] e.op = "if" ->
         LET c == DoEval(s, e.a)
         IN IF ~c.ok THEN c
            ELSE IF c.v # 0 THEN DoEval(c.st, e.b) ELSE DoEval(c.st, e.c)
    [] e.op = "throwIfZero" ->
         LET r == DoEval(s, e.a)
         IN IF r.ok /\ r.v = 0 THEN Throw(r.st, "UserError") ELSE r
    [] e.op = "throwIfEq" ->
         LET r == DoEval(s, e.a)
         IN IF r.ok /\ r.v = e.k THEN Throw(r.st, "UserError") ELSE r
    [] e.op = "set" ->
         LET r == DoEval(s, e.a)
         IN IF r.ok THEN DoSignalSet(r.st, e.n, r.v) ELSE r
    [] e.op = "viewRead" -> DoReadNode(SignalReadonly(s, e.n).st, e.n)
    [] e.op = "destroy" -> DoDestroyEffect(s, e.n)
    [] e.op = "thenCountUp" ->
         LET r == DoEval(s, e.a)
         IN IF r.ok
            THEN Ok([r.st EXCEPT !.updateCounter = @ + 1], r.st.updateCounter)
            ELSE r

\* WritableSignalImpl.signal
SignalRead(s, n) ==
  LET Recorded(r) == IF r.ok THEN Ok(r.st, r.st.value[n].v) ELSE r
  IN Recorded(RecordAccess(s, n))

\* signal() handing out the cache without rethrowing a cached error.
MemoSignal_NoRethrow(s, n) ==
  LET r1 == DoUpdateProducerValueVersion(s, n)
  IN IF ~r1.ok THEN r1
     ELSE LET r2 == RecordAccess(r1.st, n)
          IN IF ~r2.ok THEN r2
             ELSE IF r2.st.value[n].t = "VAL"
             THEN Ok(r2.st, r2.st.value[n].v)
             ELSE Ok(r2.st, SymbolAsValue)

\* MemoizedSignalImp.signal
MemoSignal(s, n) ==
  LET Recorded(r2) ==
        IF ~r2.ok THEN r2
        ELSE IF r2.st.value[n].t = "ERRORED"
        THEN Throw(r2.st, r2.st.error[n])
        ELSE IF r2.st.value[n].t = "VAL"
        THEN Ok(r2.st, r2.st.value[n].v)
        ELSE Ok(r2.st, SymbolAsValue)
      Updated(r1) == IF ~r1.ok THEN r1 ELSE Recorded(RecordAccess(r1.st, n))
  IN Updated(DoUpdateProducerValueVersion(s, n))

\* How a call of a signal function ended: returned, threw the error of
\* recordAccess, or threw something else.
Returned == 1
ThrewReadDuringNotify == 0
ThrewOther == 2
Outcome(r) ==
  IF r.ok THEN Returned
  ELSE IF r.err = "ReadDuringNotify" THEN ThrewReadDuringNotify ELSE ThrewOther

\* Whether the Dependency between producer p and consumer c differs between
\* two states (1) or not (0); there is none for c = null.
EdgeTouched(s, t, p, c) ==
  IF c = NoNode THEN 0
  ELSE IF (<<p, c>> \in DOMAIN s.dep) # (<<p, c>> \in DOMAIN t.dep) THEN 1
  ELSE IF <<p, c>> \in DOMAIN s.dep /\ s.dep[<<p, c>>] # t.dep[<<p, c>>] THEN 1
  ELSE IF MapHas(s.producers[c], p) # MapHas(t.producers[c], p) THEN 1
  ELSE IF MapHas(s.consumers[p], c) # MapHas(t.consumers[p], c) THEN 1
  ELSE 0

\* Calling a signal function.  The log keeps what a running compute function
\* or callback got from the call and, for a call made while notifying is
\* set, that it was made, how it ended and whether it touched the edge
\* between the signal and the active consumer.
ReadNode(s, n) ==
  LET Logged(r) ==
        IF s.notifying
        THEN [r EXCEPT !.st = Log(@, Ev("readInNotifyEnd", n, Outcome(r),
                                        EdgeTouched(s, r.st, n, s.activeConsumer)))]
        ELSE IF r.ok /\ s.activeConsumer # NoNode
        THEN [r EXCEPT !.st = NoteAccess(Log(@, Ev("sees", n, 0, r.v)),
                                         n, s.activeConsumer)]
        ELSE IF s.activeConsumer # NoNode /\ Kind(n) = "memo"
                /\ r.st.value[n].t = "ERRORED" /\ ~r.st.stale[n]
        THEN [r EXCEPT !.st = NoteAccess(@, n, s.activeConsumer)]
        ELSE r
      Signal(s0) ==
        IF Kind(n) = "signal" THEN SignalRead(s0, n) ELSE MemoSignal(s0, n)
  IN Logged(Signal(IF s.notifying THEN Log(s, Ev("readInNotify", n, 0, 0)) ELSE s))

\* A stale memo that always recomputes.
MayResolveStale_Never(cache) == FALSE

\* A stale memo that resolves on its dependencies only when it holds a value.
MayResolveStale_ValuesOnly(cache) == cache.t = "VAL"

\* The guard of updateProducerValueVersion that lets a stale memo with a
\* settled cache skip the recomputation when no dependency changed.
MayResolveStale(cache) == cache.t # "UNSET" /\ cache.t # "COMPUTING"

\* updateProducerValueVersion recomputing on every validation.
UpdateProducerValueVersion_IgnoresStale(s, n) ==
  IF Kind(n) # "memo" THEN Ok(s, 0) ELSE DoRecomputeValue(s, n)

\* MemoizedSignalImp.updateProducerValueVersion; the base class and the
\* other variants do nothing.
UpdateProducerValueVersion(s, n) ==
  IF Kind(n) # "memo" THEN Ok(s, 0)
  ELSE IF ~s.stale[n] THEN Ok(s, 0)
  ELSE IF MayResolveStale(s.value[n])
  THEN LET r == DoHasDependenciesChanged(s, n, 1)
       IN IF ~r.ok THEN r
          ELSE IF ~r.v THEN Ok([r.st EXCEPT !.stale[n] = FALSE], 0)
          ELSE DoRecomputeValue(r.st, n)
  ELSE DoRecomputeValue(s, n)

\* ReactiveNode.hasDependenciesChanged: the for-of loop at slot i of
\* this.producers.
HasDependenciesChanged(s, c, i) ==
  IF i > Len(s.producers[c]) THEN Ok(s, FALSE)
  ELSE LET p == s.producers[c][i]
       IN IF p = Hole THEN DoHasDependenciesChanged(s, c, i + 1)
          ELSE IF \/ Deref(s, p) = Undefined
                  \/ IsStaleDependency(s.dep[<<p, c>>].consumerVersion,
                                       s.trackingVersion[c])
          THEN DoHasDependenciesChanged(DeleteDependency(s, p, c), c, i + 1)
          ELSE LET r == DoCheckValueChanged(s, p, s.dep[<<p, c>>].producerVersion)
               IN IF ~r.ok THEN r
                  ELSE IF r.v THEN Ok(r.st, TRUE)
                  ELSE DoHasDependenciesChanged(r.st, c, i + 1)

\* ReactiveNode.checkValueChanged
CheckValueChanged(s, p, lastSeenVersion) ==
  IF s.valueVersion[p] # lastSeenVersion THEN Ok(s, TRUE)
  ELSE LET r == DoUpdateProducerValueVersion(s, p)
       IN IF ~r.ok THEN r
          ELSE Ok(r.st, r.st.valueVersion[p] # lastSeenVersion)

\* recomputeValue keeping the previous value without comparing the two.
KeepsPreviousValue_NoCompare(opt, previousValue, newValue) ==
  /\ previousValue.t # "UNSET"
  /\ previousValue.t # "ERRORED"
  /\ newValue.t # "ERRORED"

\* The test of recomputeValue that keeps the previous value.
KeepsPreviousValue(opt, previousValue, newValue) ==
  /\ previousValue.t # "UNSET"
  /\ previousValue.t # "ERRORED"
  /\ newValue.t # "ERRORED"
  /\ Equal(opt, previousValue.v, newValue.v)

\* recomputeValue incrementing valueVersion although it keeps the previous
\* value.
RecomputeValue_AlwaysBumps(s, n) ==
  IF s.value[n].t = "COMPUTING" THEN Throw(s, "CycleDetected")
  ELSE
    LET previousValue == s.value[n]
        s1 == [StartPass(s, n) EXCEPT !.value[n] = COMPUTING]
        previousConsumer == s1.activeConsumer
        s2 == Log(SetActiveConsumer(s1, n), Ev("compute", n, 0, 0))
        r == DoEval(s2, Compute(n))
        newValue == IF r.ok THEN Val(r.v) ELSE ERRORED
        s3 == Log(IF r.ok THEN r.st ELSE [r.st EXCEPT !.error[n] = r.err],
                  Ev("computed", n, IF r.ok THEN 1 ELSE 0, r.v))
        s4 == [SetActiveConsumer(s3, previousConsumer) EXCEPT !.stale[n] = FALSE]
    IN IF KeepsPreviousValue(EqualOpt(n), previousValue, newValue)
       THEN Ok([s4 EXCEPT !.value[n] = previousValue,
                          !.valueVersion[n] = @ + 1], 0)
       ELSE Ok([s4 EXCEPT !.value[n] = newValue,
                          !.valueVersion[n] = @ + 1], 0)

\* MemoizedSignalImp.recomputeValue; the log keeps what compute returned (1)
\* or that it threw (0).  options.equal is called after the try statement:
\* when it throws, the exception leaves recomputeValue with stale cleared
\* and the cache still COMPUTING.
RecomputeValue(s, n) ==
  IF s.value[n].t = "COMPUTING" THEN Throw(s, "CycleDetected")
  ELSE
    LET previousValue == s.value[n]
        s1 == [StartPass(s, n) EXCEPT !.value[n] = COMPUTING]
        previousConsumer == s1.activeConsumer
        s2 == Log(SetActiveConsumer(s1, n), Ev("compute", n, 0, 0))
        Store(newValue, s4) ==
          IF /\ previousValue.t \notin {"UNSET", "ERRORED"}
             /\ newValue.t # "ERRORED"
             /\ EqualThrows(EqualOpt(n))
          THEN Throw(s4, "EqualError")
          ELSE IF KeepsPreviousValue(EqualOpt(n), previousValue, newValue)
          THEN Ok([s4 EXCEPT !.value[n] = previousValue], 0)
          ELSE Ok([s4 EXCEPT !.value[n] = newValue,
                             !.valueVersion[n] = @ + 1], 0)
        Finally(newValue, s3) ==
          Store(newValue,
                [SetActiveConsumer(s3, previousConsumer) EXCEPT !.stale[n] = FALSE])
        TryCatch(r) ==
          Finally(IF r.ok THEN Val(r.v) ELSE ERRORED,
                  Log(IF r.ok THEN r.st ELSE [r.st EXCEPT !.error[n] = r.err],
                      Ev("computed", n, IF r.ok THEN 1 ELSE 0, r.v)))
    IN TryCatch(DoEval(s2, Compute(n)))

\* ---------------------------------------------------------- signal.ts ----
\* set comparing with === whatever the equal option is.
SetIsNoop_Identity(opt, current, newValue) == current = newValue

\* The test of WritableSignalImpl.set that makes a write a no-op.
SetIsNoop(opt, current, newValue) == Equal(opt, current, newValue)

\* this.options.onChange?.(this.value); what the option throws reaches the
\* caller.
OnChange(s, n) ==
  IF ~HasOnChange(n) THEN Ok(s, 0)
  ELSE LET s1 == Log(s, Ev("onChange", n, 0, s.value[n].v))
       IN IF OnChangeThrows(n, s.value[n].v) THEN Throw(s1, "OnChangeError")
          ELSE Ok(s1, 0)

\* onChange called before the consumers are notified.
BumpAndNotify_OnChangeFirst(s, n) ==
  LET s1 == [s EXCEPT !.valueVersion[n] = @ + 1]
      r == OnChange(Log(s1, Ev("bump", n, s1.valueVersion[n], s1.value[n].v)), n)
  IN IF ~r.ok THEN r ELSE DoNotifyConsumers(r.st, n)

\* this.valueVersion++; this.notifyConsumers(); this.options.onChange(...)
BumpAndNotify(s, n) ==
  LET s1 == [s EXCEPT !.valueVersion[n] = @ + 1]
      s2 == Log(s1, Ev("bump", n, s1.valueVersion[n], s1.value[n].v))
      r == DoNotifyConsumers(s2, n)
  IN IF ~r.ok THEN r ELSE OnChange(r.st, n)

\* WritableSignalImpl.set
SignalSet(s, n, newValue) ==
  IF SetIsNoop(EqualOpt(n), s.value[n].v, newValue) THEN Ok(s, 0)
  ELSE BumpAndNotify([s EXCEPT !.value[n] = Val(newValue)], n)

\* The updater passed to update(): count up, wrapping at MaxVal.
Updater(v) == (v + 1) % (MaxVal + 1)

\* WritableSignalImpl.update
SignalUpdate(s, n) == SignalSet(s, n, Updater(s.value[n].v))

\* mutate going through the equality check of set.
SignalMutate_ChecksEqual(s, n) == SignalSet(s, n, s.value[n].v)

\* WritableSignalImpl.mutate; the mutator cannot change a primitive value.
SignalMutate(s, n) == BumpAndNotify(s, n)

\* --------------------------------------------------------- promise.ts ----
\* The reaction jobs a settled promise queues for
\* promise.then(onFulfilled).catch(onRejected).
Reactions_Both(outcome) ==
  <<[h |-> "then", arg |-> PromisedValue], [h |-> "catch", arg |-> PromisedError]>>

Reactions(outcome) ==
  IF outcome = "fulfilled" THEN <<[h |-> "then", arg |-> PromisedValue]>>
  ELSE <<[h |-> "catch", arg |-> PromisedError]>>

\* The two handlers createPromiseSignal registers.
PromiseHandler(s, j) ==
  IF j.h = "then" THEN SignalSet(s, "ps", Fulfilled(j.arg))
  ELSE SignalSet(s, "ps", Rejected(j.arg))

\* ----------------------------------------------------------- watch.ts ----
\* Watch.run running the callback without consulting its producers.
WatchSkipsRun_Never(trackingVersion, changed) == FALSE

\* The early return of Watch.run.
WatchSkipsRun(trackingVersion, changed) == trackingVersion # 0 /\ ~changed

\* this.cleanupFn()
RunCleanup(s, w) ==
  IF s.cleanupFn[w] = NOOP_CLEANUP THEN s
  ELSE [Log(s, Ev("cleanup", w, s.cleanupFn[w], 0)) EXCEPT
          !.cleanupsDone[w] = @ \cup {s.cleanupFn[w]},
          !.cleanupRepeated =
             IF s.cleanupFn[w] \in s.cleanupsDone[w] THEN @ \cup {w} ELSE @]

\* Watch.run calling the previous cleanup after the callback.
RunCallback_CleanupAfter(s, w) ==
  LET k == s.execCount[w] + 1
      s2 == Log([s EXCEPT !.execCount[w] = k], Ev("callback", w, k, 0))
      r == DoEval(s2, Callback(w))
  IN IF ~r.ok THEN r
     ELSE Ok([RunCleanup(Log(r.st, Ev("push", w, k, r.v)), w) EXCEPT
                !.cleanupFn[w] = IF ReturnsCleanup(w) THEN k ELSE NOOP_CLEANUP], 0)

\* The try block of Watch.run: the previous cleanup, then the callback, whose
\* result becomes the new cleanupFn.
RunCallback(s, w) ==
  LET k == s.execCount[w] + 1
      s1 == RunCleanup(s, w)
      s2 == Log([s1 EXCEPT !.execCount[w] = k], Ev("callback", w, k, 0))
      r == DoEval(s2, Callback(w))
  IN IF ~r.ok THEN r
     ELSE Ok([Log(r.st, Ev("push", w, k, r.v)) EXCEPT
                !.cleanupFn[w] = IF ReturnsCleanup(w) THEN k ELSE NOOP_CLEANUP], 0)

\* Watch.run without the finally block: a callback that throws leaves the
\* watch as the active consumer.
WatchRun_NoFinally(s, w) ==
  LET s1 == Log([s EXCEPT !.dirty[w] = FALSE, !.hookCalls[w] = 0],
                Ev("run", w, 0, 0))
      chk == IF s1.trackingVersion[w] # 0
             THEN DoHasDependenciesChanged(s1, w, 1)
             ELSE Ok(s1, TRUE)
  IN IF ~chk.ok THEN chk
     ELSE IF WatchSkipsRun(s1.trackingVersion[w], chk.v) THEN Ok(chk.st, 0)
     ELSE LET previousConsumer == chk.st.activeConsumer
              s2 == StartPass(SetActiveConsumer(chk.st, w), w)
              r == RunCallback(s2, w)
          IN IF ~r.ok THEN r
             ELSE [r EXCEPT !.st = SetActiveConsumer(@, previousConsumer)]

\* Watch.run clearing dirty only when it goes on to the callback.
WatchRun_SkipKeepsDirty(s, w) ==
  LET s1 == Log([s EXCEPT !.hookCalls[w] = 0], Ev("run", w, 0, 0))
      chk == IF s1.trackingVersion[w] # 0
             THEN DoHasDependenciesChanged(s1, w, 1)
             ELSE Ok(s1, TRUE)
  IN IF ~chk.ok THEN chk
     ELSE IF WatchSkipsRun(s1.trackingVersion[w], chk.v) THEN Ok(chk.st, 0)
     ELSE LET previousConsumer == chk.st.activeConsumer
              s2 == StartPass(SetActiveConsumer([chk.st EXCEPT !.dirty[w] = FALSE],
                                                w), w)
              r == RunCallback(s2, w)
          IN [r EXCEPT !.st = SetActiveConsumer(@, previousConsumer)]

\* Watch.run
WatchRun(s, w) ==
  LET s1 == Log([s EXCEPT !.dirty[w] = FALSE, !.hookCalls[w] = 0],
                Ev("run", w, 0, 0))
      chk == IF s1.trackingVersion[w] # 0
             THEN DoHasDependenciesChanged(s1, w, 1)
             ELSE Ok(s1, TRUE)
  IN IF ~chk.ok THEN chk
     ELSE IF WatchSkipsRun(s1.trackingVersion[w], chk.v) THEN Ok(chk.st, 0)
     ELSE LET previousConsumer == chk.st.activeConsumer
              s2 == StartPass(SetActiveConsumer(chk.st, w), w)
              r == RunCallback(s2, w)
          IN [r EXCEPT !.st = SetActiveConsumer(@, previousConsumer)]

\* ---------------------------------------------------------- effect.ts ----
\* effect(): new Watch, activeEffects.add, watch.notify().
CreateEffect(s, w) ==
  WatchNotify([s EXCEPT !.created = @ \cup {w},
                        !.activeEffects = @ \cup {w}], w).st

\* destroy() leaving the watch in executionQueue.
DestroyEffect_KeepsQueued(s, w) ==
  [RunCleanup(s, w) EXCEPT !.activeEffects = @ \ {w}]

\* EffectRef.destroy
DestroyEffect(s, w) ==
  [RunCleanup(s, w) EXCEPT !.activeEffects = @ \ {w},
                           !.executionQueue = MapDelete(@, w)]

\* resetEffects() clearing activeEffects only.
ResetEffects_KeepsQueue(s) == [s EXCEPT !.activeEffects = {}]

\* resetEffects
ResetEffects(s) ==
  [s EXCEPT !.executionQueue = <<>>, !.activeEffects = {}]

\* The for-of loop of executeQueue at slot i of executionQueue.  A watch that
\* throws ends the loop and the function: the exception leaves the microtask
\* with pendingQueue still set.
ExecuteQueueLoop(s, i) ==
  IF i > Len(s.executionQueue) THEN Ok([s EXCEPT !.pendingQueue = FALSE], 0)
  ELSE LET w == s.executionQueue[i]
       IN IF w = Hole THEN DoExecuteQueueLoop(s, i + 1)
          ELSE LET r == DoWatchRun([s EXCEPT !.executionQueue = MapDelete(@, w)], w)
               IN IF ~r.ok THEN Throw(Log(r.st, Ev("uncaught", w, 0, 0)), r.err)
                  ELSE DoExecuteQueueLoop(r.st, i + 1)

\* executeQueue
ExecuteQueue(s) == DoExecuteQueueLoop(s, 1)

\* The dispatch of a nested call to the method it names.
Dispatch(s, c) ==
  CASE c.f = "Eval" -> Eval(s, c.e)
    [] c.f = "ReadNode" -> ReadNode(s, c.n)
    [] c.f = "UpdateProducerValueVersion" -> UpdateProducerValueVersion(s, c.n)
    [] c.f = "HasDependenciesChanged" -> HasDependenciesChanged(s, c.n, c.i)
    [] c.f = "CheckValueChanged" -> CheckValueChanged(s, c.n, c.v)
    [] c.f = "RecomputeValue" -> RecomputeValue(s, c.n)
    [] c.f = "NotifyConsumers" -> NotifyConsumers(s, c.n)
    [] c.f = "NotifyLoop" -> NotifyLoop(s, c.n, c.i)
    [] c.f = "OnDependencyChange" -> OnDependencyChange(s, c.n)
    [] c.f = "WatchRun" -> WatchRun(s, c.n)
    [] c.f = "ExecuteQueueLoop" -> ExecuteQueueLoop(s, c.i)
    [] c.f = "SignalSet" -> SignalSet(s, c.n, c.v)
    [] c.f = "DestroyEffect" -> Ok(DestroyEffect(s, c.n), 0)

\* Whether two states have the same activeConsumer and notifying.
SameAmbient(s, t) ==
  s.activeConsumer = t.activeConsumer /\ s.notifying = t.notifying

\* A nested call; the state keeps whether every nested call so far, returning
\* or throwing, left activeConsumer and notifying as it found them.
Call(s, c) ==
  LET Returning(r) ==
        [r EXCEPT !.st = [@ EXCEPT !.ambientRestored = @ /\ SameAmbient(s, r.st)]]
  IN Returning(Dispatch(s, c))

\* -------------------------------------------------------------- state ----
VARIABLES
  prog,            \* the program being run
  value,           \* WritableSignalImpl.value / MemoizedSignalImp.value
  error,           \* MemoizedSignalImp.error
  stale,           \* MemoizedSignalImp.stale
  valueVersion,    \* ReactiveNode.valueVersion
  trackingVersion, \* ReactiveNode.trackingVersion
  producers,       \* ReactiveNode.producers: keys in insertion order
  consumers,       \* ReactiveNode.consumers: keys in insertion order
  dep,             \* the Dependency objects, by <<producer, consumer>>
  activeConsumer,  \* _graph.ts activeConsumer
  notifying,       \* _graph.ts notifying
  dirty,           \* Watch.dirty
  cleanupFn,       \* Watch.cleanupFn
  execCount,       \* how many times each callback has been invoked
  created,         \* the effects effect() has been called for
  activeEffects,   \* effect.ts activeEffects
  executionQueue,  \* effect.ts executionQueue, in insertion order
  pendingQueue,    \* effect.ts pendingQueue !== null
  microtasks,      \* executeQueue microtasks queued by Promise.resolve().then
  ev,              \* what the last handler did, in order
  writes,          \* set / update / mutate calls made so far
  lastOp,          \* the last top-level call
  lastRead,        \* the outcome of the last top-level call, if a read
  removed,         \* how each effect left activeEffects: destroy or reset
  thrown,          \* the exception the last top-level write let escape
  readonlySignal,  \* WritableSignalImpl.readonlySignal, NoView if undefined
  viewsMade,       \* the readonly views made so far
  promise,         \* the state of the promise given to createPromiseSignal
  jobs,            \* the promise reaction jobs waiting to run
  updateCounter,   \* memo_test.ts updateCounter
  accessed,        \* the producers each consumer read in its latest pass
  collected,       \* the nodes the garbage collector has reclaimed
  cleanupsDone,    \* the cleanup functions of each watch invoked so far
  cleanupRepeated, \* the watches one of whose cleanup functions was invoked
                   \* a second time
  hookCalls,       \* calls of each watch's schedule function since its last
                   \* run(), counted up to 2
  ambientRestored  \* every nested call so far left activeConsumer and
                   \* notifying as it found them

vars == <<prog, value, error, stale, valueVersion, trackingVersion, producers,
          consumers, dep, activeConsumer, notifying, dirty, cleanupFn,
          execCount, created, activeEffects, executionQueue, pendingQueue,
          microtasks, ev, writes, lastOp, lastRead, removed, thrown,
          readonlySignal, viewsMade, promise, jobs, updateCounter,
          accessed, collected, hookCalls, cleanupsDone, cleanupRepeated,
          ambientRestored>>

\* The program state as the record the operators thread, with an empty log.
S ==
  [value |-> value, error |-> error, stale |-> stale,
   valueVersion |-> valueVersion, trackingVersion |-> trackingVersion,
   producers |-> producers, consumers |-> consumers, dep |-> dep,
   activeConsumer |-> activeConsumer, notifying |-> notifying,
   dirty |-> dirty, cleanupFn |-> cleanupFn, execCount |-> execCount,
   created |-> created, activeEffects |-> activeEffects,
   executionQueue |-> executionQueue, pendingQueue |-> pendingQueue,
   microtasks |-> microtasks, readonlySignal |-> readonlySignal,
   viewsMade |-> viewsMade, ambientRestored |-> ambientRestored,
   updateCounter |-> updateCounter, accessed |-> accessed,
   collected |-> collected, hookCalls |-> hookCalls,
   cleanupsDone |-> cleanupsDone, cleanupRepeated |-> cleanupRepeated,
   ev |-> <<>>]

\* The state a handler leaves behind.  No iteration is in progress between
\* handlers, so the deleted slots of the Maps and of the Set are dropped.
Commit(s) ==
  /\ value' = s.value
  /\ error' = s.error
  /\ stale' = s.stale
  /\ valueVersion' = s.valueVersion
  /\ trackingVersion' = s.trackingVersion
  /\ producers' = [n \in DOMAIN s.producers |-> Compact(s.producers[n])]
  /\ consumers' = [n \in DOMAIN s.consumers |-> Compact(s.consumers[n])]
  /\ dep' = s.dep
  /\ activeConsumer' = s.activeConsumer
  /\ notifying' = s.notifying
  /\ dirty' = s.dirty
  /\ cleanupFn' = s.cleanupFn
  /\ execCount' = s.execCount
  /\ created' = s.created
  /\ activeEffects' = s.activeEffects
  /\ executionQueue' = Compact(s.executionQueue)
  /\ pendingQueue' = s.pendingQueue
  /\ microtasks' = s.microtasks
  /\ readonlySignal' = s.readonlySignal
  /\ viewsMade' = s.viewsMade
  /\ ambientRestored' = s.ambientRestored
  /\ updateCounter' = s.updateCounter
  /\ accessed' = s.accessed
  /\ collected' = s.collected
  /\ hookCalls' = s.hookCalls
  /\ cleanupsDone' = s.cleanupsDone
  /\ cleanupRepeated' = s.cleanupRepeated
  /\ ev' = s.ev

NoRead == [ok |-> TRUE, v |-> 0, err |-> "none"]
Op(op, node, arg) == [op |-> op, node |-> node, arg |-> arg]

Init ==
  /\ prog \in Progs
  /\ value = [n \in Signals(prog) \cup Memos(prog) |->
                IF n \in Signals(prog) THEN Val(InitialValue(n)) ELSE UNSET]
  /\ error = [n \in Memos(prog) |-> "null"]
  /\ stale = [n \in Memos(prog) |-> TRUE]
  /\ valueVersion = [n \in NodesOf(prog) |-> 0]
  /\ trackingVersion = [n \in NodesOf(prog) |-> 0]
  /\ producers = [n \in NodesOf(prog) |-> <<>>]
  /\ consumers = [n \in NodesOf(prog) |-> <<>>]
  /\ dep = <<>>
  /\ activeConsumer = NoNode
  /\ notifying = FALSE
  /\ dirty = [w \in WatchNodes(prog) |-> FALSE]
  /\ cleanupFn = [w \in WatchNodes(prog) |-> NOOP_CLEANUP]
  /\ execCount = [w \in WatchNodes(prog) |-> 0]
  /\ created = {}
  /\ activeEffects = {}
  /\ executionQueue = <<>>
  /\ pendingQueue = FALSE
  /\ microtasks = 0
  /\ ev = <<>>
  /\ writes = 0
  /\ lastOp = Op("init", NoNode, 0)
  /\ lastRead = NoRead
  /\ removed = [w \in Effects(prog) |-> "no"]
  /\ thrown = "none"
  /\ readonlySignal = [n \in Signals(prog) |-> IF n \in Hidden(prog) THEN 1 ELSE NoView]
  /\ viewsMade = Cardinality(Hidden(prog))
  /\ promise = IF prog = "promise" THEN "pending" ELSE "none"
  /\ jobs = <<>>
  /\ ambientRestored = TRUE
  /\ updateCounter = 0
  /\ accessed = <<>>
  /\ collected = {}
  /\ hookCalls = [w \in WatchNodes(prog) |-> 0]
  /\ cleanupsDone = [w \in WatchNodes(prog) |-> {}]
  /\ cleanupRepeated = {}

\* ------------------------------------------------------------ actions ----
\* signal.set(v) at top level.
Set(n, v) ==
  /\ writes < MaxWrites
  /\ LET Done(r) == Commit(r.st) /\ thrown' = r.err
     IN Done(SignalSet(S, n, v))
  /\ writes' = writes + 1
  /\ lastOp' = Op("set", n, v)
  /\ UNCHANGED <<prog, promise, jobs, removed>>
  /\ lastRead' = NoRead

\* signal.update(f) at top level.
Update(n) ==
  /\ writes < MaxWrites
  /\ LET Done(r) == Commit(r.st) /\ thrown' = r.err
     IN Done(SignalUpdate(S, n))
  /\ writes' = writes + 1
  /\ lastOp' = Op("update", n, 0)
  /\ UNCHANGED <<prog, promise, jobs, removed>>
  /\ lastRead' = NoRead

\* signal.mutate(f) at top level.
Mutate(n) ==
  /\ writes < MaxWrites
  /\ LET Done(r) == Commit(r.st) /\ thrown' = r.err
     IN Done(SignalMutate(S, n))
  /\ writes' = writes + 1
  /\ lastOp' = Op("mutate", n, 0)
  /\ UNCHANGED <<prog, promise, jobs, removed>>
  /\ lastRead' = NoRead

\* Calling a signal or a memo at top level.
ReadTop(n) ==
  /\ n \notin collected
  /\ LET Done(r) ==
          /\ Commit(r.st)
          /\ lastRead' = [ok |-> r.ok, v |-> r.v, err |-> r.err]
          /\ lastOp' = Op("read", n, 0)
          /\ UNCHANGED <<prog, promise, jobs, writes, removed, thrown>>
     IN Done(ReadNode(S, n))

\* The program drops its last reference to memo n and the garbage collector
\* reclaims the node: from now on the WeakRefs to it resolve to undefined.
Drop(n) ==
  /\ n \notin collected
  /\ Commit([S EXCEPT !.collected = @ \cup {n}])
  /\ lastOp' = Op("drop", n, 0)
  /\ lastRead' = NoRead
  /\ UNCHANGED <<prog, promise, jobs, writes, removed, thrown>>

\* effect(callback) at top level.
EffectCall(w) ==
  /\ w \notin created
  /\ Commit(CreateEffect(S, w))
  /\ lastOp' = Op("effect", w, 0)
  /\ UNCHANGED <<prog, promise, jobs, writes, removed, thrown>>
  /\ lastRead' = NoRead

\* effectRef.destroy() at top level.
Destroy(w) ==
  /\ w \in created
  /\ Commit(DestroyEffect(S, w))
  /\ lastOp' = Op("destroy", w, 0)
  /\ removed' = [removed EXCEPT ![w] = IF @ = "no" THEN "destroy" ELSE @]
  /\ UNCHANGED <<prog, promise, jobs, writes, thrown>>
  /\ lastRead' = NoRead

\* resetEffects() at top level, once some effect exists.
Reset ==
  /\ Resets(prog)
  /\ created # {}
  /\ Commit(ResetEffects(S))
  /\ lastOp' = Op("reset", NoNode, 0)
  /\ removed' = [w \in Effects(prog) |->
                  IF w \in activeEffects THEN "reset" ELSE removed[w]]
  /\ UNCHANGED <<prog, promise, jobs, writes, thrown>>
  /\ lastRead' = NoRead

\* signal.readonly() at top level; the call returns the view.
Readonly(n) ==
  LET r == SignalReadonly(S, n)
  IN /\ Commit(r.st)
     /\ lastOp' = Op("readonly", n, r.v)
     /\ UNCHANGED <<prog, promise, jobs, writes, removed, thrown>>
     /\ lastRead' = NoRead

\* Calling a readonly view at top level: () => this.signal().
ReadView(n) ==
  /\ readonlySignal[n] # NoView
  /\ LET Done(r) ==
           /\ Commit(r.st)
           /\ lastRead' = [ok |-> r.ok, v |-> r.v, err |-> r.err]
           /\ lastOp' = Op("readView", n, 0)
           /\ UNCHANGED <<prog, promise, jobs, writes, removed, thrown>>
     IN Done(SignalRead(S, n))

\* The promise given to createPromiseSignal resolves or rejects.
Settle(outcome) ==
  /\ promise = "pending"
  /\ promise' = outcome
  /\ jobs' = Reactions(outcome)
  /\ Commit(S)
  /\ lastOp' = Op("settle", NoNode, 0)
  /\ UNCHANGED <<prog, writes, removed, thrown>>
  /\ lastRead' = NoRead

\* The next promise reaction job runs; a handler of then that throws
\* rejects the derived promise, which catch handles.
RunJob ==
  /\ jobs # <<>>
  /\ LET j == Head(jobs)
         Done(r) ==
           /\ Commit(r.st)
           /\ jobs' = IF j.h = "then" /\ ~r.ok
                      THEN Append(Tail(jobs), [h |-> "catch", arg |-> PromisedError])
                      ELSE Tail(jobs)
           /\ lastOp' = Op(j.h, NoNode, 0)
     IN Done(PromiseHandler(S, j))
  /\ UNCHANGED <<prog, promise, writes, removed, thrown>>
  /\ lastRead' = NoRead

\* watch.run() at top level, on a watch the program made itself.
WatchRunTop(w) ==
  /\ LET Done(r) == Commit(r.st) /\ thrown' = r.err
     IN Done(WatchRun(S, w))
  /\ lastOp' = Op("run", w, 0)
  /\ lastRead' = NoRead
  /\ UNCHANGED <<prog, promise, jobs, writes, removed>>

\* watch.notify() at top level, on a watch the program made itself.
WatchNotifyTop(w) ==
  /\ LET Done(r) == Commit(r.st) /\ thrown' = r.err
     IN Done(WatchNotify(S, w))
  /\ lastOp' = Op("notify", w, 0)
  /\ lastRead' = NoRead
  /\ UNCHANGED <<prog, promise, jobs, writes, removed>>

\* The microtask queued by queueEffect runs executeQueue.
Flush ==
  /\ microtasks > 0
  /\ Commit(ExecuteQueue([S EXCEPT !.microtasks = @ - 1]).st)
  /\ lastOp' = Op("flush", NoNode, 0)
  /\ UNCHANGED <<prog, promise, jobs, writes, removed, thrown>>
  /\ lastRead' = NoRead

Next ==
  \/ \E n \in Writable(prog), v \in 0..MaxVal : Set(n, v)
  \/ \E n \in Writable(prog) : Update(n)
  \/ \E n \in Writable(prog) : Mutate(n)
  \/ \E n \in Readable(prog) : ReadTop(n)
  \/ \E n \in Droppable(prog) : Drop(n)
  \/ \E n \in Views(prog) : Readonly(n)
  \/ \E n \in Views(prog) \cup Hidden(prog) : ReadView(n)
  \/ \E outcome \in {"fulfilled", "rejected"} : Settle(outcome)
  \/ RunJob
  \/ \E w \in Effects(prog) : EffectCall(w)
  \/ \E w \in Destroyable(prog) : Destroy(w)
  \/ \E w \in Watches(prog) : WatchRunTop(w)
  \/ \E w \in Watches(prog) : WatchNotifyTop(w)
  \/ Reset
  \/ Flush

Spec == Init /\ [][Next]_vars

\* The host runs every queued microtask.
FairSpec == Spec /\ WF_vars(Flush)

TypeOK ==
  /\ activeConsumer = NoNode
  /\ notifying = FALSE
  /\ microtasks \in 0..1

\* ------------------------------------------------------------- claims ----
\* What an expression yields on the current values of the writable signals,
\* every memo standing for its own compute function.
RECURSIVE Denote(_)
Denote(e) ==
  CASE e.op = "read" ->
         IF e.n \in AllSignals THEN value[e.n].v ELSE Denote(Compute(e.n))
    [] e.op = "const" -> e.k
    [] e.op = "untracked" -> Denote(e.a)
    [] e.op = "mul2" -> Denote(e.a) * 2
    [] e.op = "isEven" -> IF Denote(e.a) % 2 = 0 THEN 1 ELSE 0
    [] e.op = "add" -> Denote(e.a) + Denote(e.b)
    [] e.op = "if" -> IF Denote(e.a) # 0 THEN Denote(e.b) ELSE Denote(e.c)

\* The memos whose compute function only makes tracked reads of signals,
\* never throws, and that use the default equality.
PureMemos == {"d", "even", "m"}

HasEv(type, node) == \E i \in 1..Len(ev) : ev[i].type = type /\ ev[i].node = node
HasEvNext(type, node) ==
  \E i \in 1..Len(ev') : ev'[i].type = type /\ ev'[i].node = node

LiveProducers(c) ==
  {p \in NodesOf(prog) :
     <<p, c>> \in DOMAIN dep /\ dep[<<p, c>>].consumerVersion = trackingVersion[c]}

\* An active effect that has run, made a tracked read of a writable signal in
\* its latest run, and has not seen the signal's current version.
EffectOutdated(w) ==
  /\ w \in Effects(prog)
  /\ w \in activeEffects
  /\ trackingVersion[w] # 0
  /\ \E p \in LiveProducers(w) \cap Signals(prog) :
       dep[<<p, w>>].producerVersion # valueVersion[p]

\* C2: an active effect whose latest run made a tracked read of a signal that
\* has since been written with a version bump eventually runs again and sees
\* the latest value. Only a flush runs an effect and only queueEffect arms a
\* flush, so in finite-run form: while such an effect has not caught up, a
\* flush is armed.
C2_OutdatedEffectHasFlushArmed ==
  \A w \in Effects(prog) : EffectOutdated(w) => microtasks > 0

\* The same as a temporal property, for a specification with fairness on the
\* flush.
C2_EffectEventuallyReruns ==
  \A w \in AllEffects : EffectOutdated(w) ~> ~EffectOutdated(w)

\* The signal an effect's callback reads directly, if any.
SignalOf(w) ==
  CASE w = "ec" -> "s" [] w = "et" -> "t" [] w = "eo" -> "o" [] OTHER -> NoNode

\* Several version-bumping writes were made to the signal of w since the
\* version w last observed (since construction, if w has not run yet).
SeveralWrites(w) ==
  LET p == SignalOf(w)
  IN IF trackingVersion[w] = 0 THEN valueVersion[p] >= 2
     ELSE /\ p \in LiveProducers(w)
          /\ valueVersion[p] >= dep[<<p, w>>].producerVersion + 2

CountEvNext(type, node) ==
  Cardinality({i \in 1..Len(ev') : ev'[i].type = type /\ ev'[i].node = node})

\* C3: when several writes were made to the signal an active effect reads
\* before a flush, that flush runs the effect's callback exactly once, and
\* the run observes the final value.
C3_BatchedWritesRunOnce ==
  [][\A w \in Effects(prog) :
       ( /\ lastOp'.op = "flush"
         /\ SignalOf(w) # NoNode
         /\ w \in activeEffects
         /\ SeveralWrites(w) )
       => /\ CountEvNext("callback", w) = 1
          /\ \E i \in 1..Len(ev') :
               ev'[i] = Ev("push", w, execCount'[w], value'[SignalOf(w)].v)]_vars

\* C4: a set whose new value the signal's equality function reports equal to
\* the current one changes nothing: value, version, consumers' flags, the
\* queue and the scheduled flush stay as they were and no onChange runs.
C4_EqualSetChangesNothing ==
  [][( /\ lastOp'.op = "set"
       /\ Equal(EqualOpt(lastOp'.node), value[lastOp'.node].v, lastOp'.arg) )
     => /\ UNCHANGED <<value, error, stale, valueVersion, trackingVersion,
                       producers, consumers, dep, dirty, cleanupFn, execCount,
                       activeEffects, executionQueue, pendingQueue, microtasks>>
        /\ ev' = <<>>]_vars

\* g uses (a, b) => a >= b as equality: g.set(0) while g is 1 is dropped.
C4_Witness ==
  /\ lastOp.op = "set" /\ lastOp.node = "g" /\ lastOp.arg = 0
  /\ value["g"].v = 1 /\ valueVersion["g"] = 1
  /\ ev = <<>>

\* The memo an effect's callback reads, if any.
MemoOf(w) ==
  CASE w = "ee" -> "even" [] w = "em_m" -> "m" [] OTHER -> NoNode

\* C5: a queued effect that reads only a memo is validated by the flush but
\* its callback (and cleanup) does not run when the memo, recomputed after a
\* write, yields a value equal to its cached one.
C5_EqualMemoSkipsEffect ==
  [][\A w \in Effects(prog) :
       ( /\ lastOp'.op = "flush"
         /\ MemoOf(w) # NoNode
         /\ w \in activeEffects
         /\ MapHas(executionQueue, w)
         /\ trackingVersion[w] # 0
         /\ LiveProducers(w) = {MemoOf(w)}
         /\ dep[<<MemoOf(w), w>>].producerVersion = valueVersion[MemoOf(w)]
         /\ value[MemoOf(w)].t = "VAL"
         /\ value[MemoOf(w)].v = Denote(Compute(MemoOf(w))) )
       => /\ HasEvNext("run", w)
          /\ ~HasEvNext("callback", w)
          /\ ~HasEvNext("cleanup", w)
          /\ execCount'[w] = execCount[w]
          /\ cleanupFn'[w] = cleanupFn[w]]_vars

\* n goes 0 -> 2: the flush recomputes the parity memo, finds it unchanged,
\* and leaves the effect at its single run.
C5_Witness ==
  /\ prog = "parity" /\ lastOp.op = "flush"
  /\ HasEv("run", "ee") /\ HasEv("compute", "even")
  /\ ~HasEv("callback", "ee")
  /\ execCount["ee"] = 1 /\ value["n"].v = 2

\* The branch input that m = cnd() ? a() : b() does not read at present.
UnusedBranch == IF value["cnd"].v # 0 THEN "b" ELSE "a"

IsWrite(o) == o.op \in {"set", "update", "mutate"}

\* C6: once m = cnd() ? a() : b() has been re-read after cnd flipped, a
\* version-bumping write to the branch input m no longer reads leaves m
\* unstale, notifies neither m nor m's consumers, and leaves no edge between
\* that input and m at either endpoint; reading m then does not compute.
C6_UnusedBranchDoesNotInvalidate ==
  [][prog = "cond" =>
       /\ ( /\ IsWrite(lastOp') /\ lastOp'.node = UnusedBranch
            /\ valueVersion'[UnusedBranch] # valueVersion[UnusedBranch]
            /\ ~stale["m"] /\ value["m"].t = "VAL" )
          => /\ ~stale'["m"]
             /\ ~HasEvNext("onDependencyChange", "m")
             /\ ~HasEvNext("onDependencyChange", "em_m")
             /\ <<UnusedBranch, "m">> \notin DOMAIN dep'
             /\ ~MapHas(producers'["m"], UnusedBranch)
             /\ ~MapHas(consumers'[UnusedBranch], "m")
             /\ UNCHANGED <<value["m"], valueVersion["m"], dirty,
                            executionQueue, microtasks>>
       /\ (lastOp'.op = "read" /\ lastOp'.node = "m" /\ ~stale["m"])
          => ~HasEvNext("compute", "m")]_vars

\* cnd was flipped to 1 and m re-read; b.set then meets the edge m made when
\* it read b and removes it.
C6_Witness ==
  /\ prog = "cond" /\ lastOp.op = "set" /\ lastOp.node = "b"
  /\ value["cnd"].v # 0 /\ ~stale["m"] /\ value["m"].t = "VAL"
  /\ HasEv("prune", "m")

CountEv(type, node) ==
  Cardinality({i \in 1..Len(ev) : ev[i].type = type /\ ev[i].node = node})

\* C7: reading either of two memos that read each other throws the cycle
\* error to the reader, each compute function having been entered at most
\* once.
C7_CycleThrows ==
  (prog = "cycle" /\ lastOp.op = "read")
    => /\ ~lastRead.ok
       /\ lastRead.err = "CycleDetected"
       /\ CountEv("compute", "m1") <= 1
       /\ CountEv("compute", "m2") <= 1

\* Reading m1 enters m1, then m2, and is cut off on re-entering m1.
C7_Witness ==
  /\ prog = "cycle" /\ lastOp.op = "read" /\ lastOp.node = "m1"
  /\ ~lastRead.ok
  /\ CountEv("compute", "m1") = 1 /\ CountEv("compute", "m2") = 1

\* C8: a read made through untracked while an effect or memo runs creates
\* no edge to that consumer, and writes to the signal read that way neither
\* mark the memo stale nor enqueue the effect, which runs once only.
C8_UntrackedMakesNoEdge ==
  [][prog = "untracked" =>
       /\ <<"u", "eu">> \notin DOMAIN dep'
       /\ <<"u", "mu">> \notin DOMAIN dep'
       /\ consumers'["u"] = <<>>
       /\ ~MapHas(producers'["eu"], "u")
       /\ ~MapHas(producers'["mu"], "u")
       /\ execCount'["eu"] <= 1
       /\ (IsWrite(lastOp') /\ lastOp'.node = "u")
          => /\ UNCHANGED <<stale, dirty, executionQueue, microtasks,
                            pendingQueue>>
             /\ ~HasEvNext("onDependencyChange", "mu")
             /\ ~HasEvNext("onDependencyChange", "eu")]_vars

\* effect(() => u.untracked()); flush; read mu; u.set(1); u.set(2): the
\* effect has its one run and mu is still fresh.
C8_Witness ==
  /\ prog = "untracked" /\ lastOp.op = "set" /\ lastOp.node = "u"
  /\ value["u"].v = 2 /\ valueVersion["u"] = 2
  /\ execCount["eu"] = 1 /\ trackingVersion["eu"] = 1
  /\ value["mu"].t = "VAL" /\ ~stale["mu"]

\* C9: whenever an effect's callback is executed again, the cleanup its
\* previous execution returned is invoked immediately before the callback
\* body starts, and the cleanup the new execution returns becomes current.
\* Executions are numbered; cleanup k is the one execution k returned.
C9_CleanupBeforeCallback ==
  [][\A i \in 1..Len(ev') :
       ev'[i].type = "callback" =>
         LET w == ev'[i].node
             k == ev'[i].k
         IN /\ (k > 1 /\ ReturnsCleanup(w))
               => /\ i > 1
                  /\ ev'[i - 1] = Ev("cleanup", w, k - 1, 0)
            /\ ( /\ \E j \in (i + 1)..Len(ev') :
                      ev'[j].type = "push" /\ ev'[j].node = w /\ ev'[j].k = k
                 /\ k = execCount'[w] )
               => cleanupFn'[w] = IF ReturnsCleanup(w) THEN k ELSE NOOP_CLEANUP]_vars

\* The second run of the effect: the cleanup of run 1, then the body of run
\* 2, whose cleanup is now current.
C9_Witness ==
  /\ lastOp.op = "flush"
  /\ \E i \in 1..(Len(ev) - 1) :
       /\ ev[i] = Ev("cleanup", "ec", 1, 0)
       /\ ev[i + 1] = Ev("callback", "ec", 2, 0)
  /\ cleanupFn["ec"] = 2

\* C10: a memo whose compute threw rethrows the cached error on every read
\* without computing again while its dependency is unchanged; once the
\* dependency changed, a read computes again and returns the new value if
\* compute succeeds.
C10_ErrorCachedUntilChange ==
  [][(prog = "error" /\ lastOp'.op = "read" /\ lastOp'.node = "em") =>
       /\ ( /\ value["em"] = ERRORED
            /\ <<"z", "em">> \in DOMAIN dep
            /\ dep[<<"z", "em">>].producerVersion = valueVersion["z"] )
          => /\ ~lastRead'.ok
             /\ lastRead'.err = error["em"]
             /\ ~HasEvNext("compute", "em")
             /\ UNCHANGED <<value, error, valueVersion>>
       /\ value["z"].v = ThrowAt
          => ~lastRead'.ok /\ lastRead'.err = "UserError"
       /\ value["z"].v # ThrowAt
          => /\ lastRead'.ok /\ lastRead'.v = value["z"].v
             /\ value'["em"] = Val(value["z"].v)]_vars

\* em threw while z was 0; after z.set(1) the read computes and returns 1.
C10_Witness ==
  /\ prog = "error" /\ lastOp.op = "read" /\ lastOp.node = "em"
  /\ lastRead.ok /\ lastRead.v = 1
  /\ valueVersion["em"] = 2 /\ HasEv("compute", "em")

\* No callback of an effect starts and no effect's watch is run in the step.
NoCallbackInStep ==
  /\ \A w \in Effects(prog) : execCount'[w] = execCount[w]
  /\ \A i \in 1..Len(ev') :
       ev'[i].node \in Effects(prog)
         => ev'[i].type \notin {"run", "callback", "push"}

\* The safety half of C11: callbacks are invoked inside flushes only, and
\* effect() leaves the new watch queued and unexecuted.
C11_NeverSynchronous ==
  [][/\ lastOp'.op # "flush" => NoCallbackInStep
     /\ lastOp'.op = "effect"
        => /\ MapHas(executionQueue', lastOp'.node)
           /\ execCount'[lastOp'.node] = 0]_vars

\* C11: an effect's callback is never invoked synchronously inside effect()
\* or inside set / update / mutate: creating an effect only enqueues it, its
\* first execution happens in the next flush, and every execution happens
\* inside a flush.
C11_FirstRunInNextFlush ==
  [][/\ lastOp'.op # "flush" => NoCallbackInStep
     /\ lastOp'.op = "effect"
        => /\ MapHas(executionQueue', lastOp'.node)
           /\ execCount'[lastOp'.node] = 0
     /\ lastOp'.op = "flush"
        => \A w \in activeEffects :
             trackingVersion[w] = 0
               => Ev("callback", w, 1, 0) \in {ev'[i] : i \in 1..Len(ev')}]_vars

\* C12: destroy() runs the effect's current cleanup and removes it from the
\* active set and from the queue; afterwards its callback is never invoked
\* again, neither for a run queued at the time nor for a later write.
C12_DestroyedNeverRuns ==
  [][/\ lastOp'.op = "destroy"
        => LET w == lastOp'.node
           IN /\ ev' = IF cleanupFn[w] = NOOP_CLEANUP THEN <<>>
                       ELSE <<Ev("cleanup", w, cleanupFn[w], 0)>>
              /\ w \notin activeEffects'
              /\ ~MapHas(executionQueue', w)
              /\ execCount'[w] = execCount[w]
     /\ \A w \in Effects(prog) :
          removed[w] = "destroy"
            => /\ execCount'[w] = execCount[w]
               /\ ~HasEvNext("run", w)
               /\ ~HasEvNext("callback", w)
               /\ w \notin activeEffects'
               /\ ~MapHas(executionQueue', w)]_vars

\* The effect ran once and was queued again by s.set(1) when it was
\* destroyed; a later write and the flush that was armed leave it at one run.
C12_Witness ==
  /\ prog = "effect" /\ removed["ec"] = "destroy"
  /\ lastOp.op = "flush"
  /\ execCount["ec"] = 1 /\ valueVersion["s"] = 2
  /\ dirty["ec"] /\ microtasks = 0

\* C13: resetEffects() empties the active set and the queue; afterwards no
\* callback of an effect created before the reset is invoked, whether it was
\* queued at the time or one of its signals is written later.
C13_ResetEffectsNeverRun ==
  [][/\ lastOp'.op = "reset"
        => /\ activeEffects' = {}
           /\ executionQueue' = <<>>
           /\ ev' = <<>>
           /\ execCount' = execCount
     /\ \A w \in Effects(prog) :
          removed[w] = "reset"
            => /\ execCount'[w] = execCount[w]
               /\ ~HasEvNext("run", w)
               /\ ~HasEvNext("callback", w)
               /\ ~MapHas(executionQueue', w)]_vars

\* effect; s.set(1); flush; s.set(2) queues the effect again; resetEffects();
\* the armed flush runs nothing.
C13_Witness ==
  /\ prog = "effect" /\ removed["ec"] = "reset"
  /\ lastOp.op = "flush" /\ ev = <<>>
  /\ execCount["ec"] = 1 /\ valueVersion["s"] = 2
  /\ dirty["ec"] /\ ~pendingQueue

\* C14: when a callback throws during a flush the scheduler continues: the
\* other watches queued in that flush still run, the throwing watch stays
\* active with dirty cleared, and the queue is left drained and re-armable,
\* so that later writes arm a new flush.
C14_SchedulerSurvivesThrow ==
  [][lastOp'.op = "flush"
       => /\ \A w \in MapKeys(executionQueue) : HasEvNext("run", w)
          /\ \A i \in 1..Len(ev') :
               ev'[i].type = "uncaught"
                 => /\ ev'[i].node \in activeEffects'
                    /\ ~dirty'[ev'[i].node]
          /\ executionQueue' = <<>>
          /\ ~pendingQueue']_vars

\* C15: a write made from inside an effect callback during a flush is seen
\* by the effects reading that signal in the next batch: a watch the write
\* enqueues is not run by the drain in progress, and stays queued with a
\* flush armed for it.
C15_WritesInEffectsSeenNextBatch ==
  [][lastOp'.op = "flush"
       => \A i \in 1..Len(ev') :
            ev'[i].type = "schedule"
              => /\ \A j \in (i + 1)..Len(ev') :
                      ~(ev'[j].type = "run" /\ ev'[j].node = ev'[i].node)
                 /\ MapHas(executionQueue', ev'[i].node)
                 /\ microtasks' > 0]_vars

\* C16: a memo created with an onChange option calls it with the new value
\* each time a recomputation commits a changed value, the first computation
\* included, and not when the value is found unchanged.
C16_MemoCallsOnChange ==
  [][\A n \in Memos(prog) :
       HasOnChange(n)
         => IF valueVersion'[n] # valueVersion[n]
            THEN Ev("onChange", n, 0, value'[n].v) \in {ev'[i] : i \in 1..Len(ev')}
            ELSE ~HasEvNext("onChange", n)]_vars

\* The consumers whose Dependency on p is from their latest run.
LiveConsumers(p) ==
  {c \in NodesOf(prog) \ collected :
     <<p, c>> \in DOMAIN dep /\ dep[<<p, c>>].consumerVersion = trackingVersion[c]}

\* Every live consumer of p was notified in the step: memos are stale,
\* watches dirty and, if active, queued.
NotifiedAll(p) ==
  \A c \in LiveConsumers(p) :
    /\ HasEvNext("onDependencyChange", c)
    /\ c \in Memos(prog) => stale'[c]
    /\ c \in Effects(prog)
       => dirty'[c] /\ (c \in activeEffects => MapHas(executionQueue', c))

EvPositions(type) == {i \in 1..Len(ev') : ev'[i].type = type}

C19_ReadonlyView ==
  [][prog = "readonly" =>
       /\ ViewKeys \cap {"set", "update", "mutate"} = {}
       /\ lastOp'.op = "readonly"
          => LET n == lastOp'.node
             IN /\ lastOp'.arg = readonlySignal'[n]
                /\ lastOp'.arg # NoView
                /\ readonlySignal[n] # NoView
                   => lastOp'.arg = readonlySignal[n] /\ viewsMade' = viewsMade
                /\ UNCHANGED <<value, valueVersion, consumers, dep, dirty,
                               executionQueue>>
       /\ readonlySignal["rw"] # NoView
          => readonlySignal'["rw"] = readonlySignal["rw"]
       /\ lastOp'.op = "readView"
          => lastRead'.ok /\ lastRead'.v = value[lastOp'.node].v
       /\ (lastOp'.op = "flush" /\ HasEvNext("callback", "ero"))
          => /\ Ev("push", "ero", execCount'["ero"], value["rw"].v)
                  \in {ev'[i] : i \in 1..Len(ev')}
             /\ "rw" \in LiveProducers("ero")'
             /\ MapHas(consumers'["rw"], "ero")
       /\ (IsWrite(lastOp') /\ valueVersion'["rw"] # valueVersion["rw"])
          => NotifiedAll("rw")]_vars

\* The effect read rw through the view, which made the view; rw.set(1)
\* notified the effect; a later readonly() call returns that same view.
C19_Witness ==
  /\ prog = "readonly" /\ lastOp = Op("readonly", "rw", 1)
  /\ viewsMade = 1 /\ execCount["ero"] = 1
  /\ value["rw"].v = 1 /\ dirty["ero"] /\ MapHas(executionQueue, "ero")

\* C20: a promise signal starts pending and changes exactly once: to
\* fulfilled with the resolved value if the promise resolved, to rejected
\* with the error if it rejected; once settled it never changes again.
C20_PromiseSettlesOnce ==
  [][prog = "promise" =>
       /\ (promise = "pending" \/ jobs # <<>>) => value["ps"] = Val(Pending)
       /\ value["ps"].v.status # "pending"
          => UNCHANGED <<value, valueVersion>>
       /\ value'["ps"] # value["ps"]
          => /\ value["ps"] = Val(Pending)
             /\ valueVersion'["ps"] = 1
             /\ value'["ps"].v = IF promise = "fulfilled"
                                 THEN Fulfilled(PromisedValue)
                                 ELSE Rejected(PromisedError)
       /\ lastOp'.op \in {"then", "catch"} => value'["ps"] # value["ps"]
       /\ lastOp'.op = "readView"
          => lastRead'.ok /\ lastRead'.v = value["ps"].v]_vars

\* The promise rejected, the catch handler ran, and the view reads
\* { status: 'rejected', error }.
C20_Witness ==
  /\ prog = "promise" /\ promise = "rejected" /\ jobs = <<>>
  /\ lastOp.op = "readView"
  /\ lastRead.v = Rejected(PromisedError)
  /\ valueVersion["ps"] = 1

\* C21: in the diamond (da; db and dc computed from da; dd computed from db
\* and dc; dd read at top level or by an effect), whatever the order of
\* writes, reads and flushes, every value dd's compute function gets from db and from dc is the one
\* computed from the current value of da, so dd never combines a fresh db
\* with an outdated dc or the reverse; reads of dd and the effect on dd get
\* the value computed from the current da as well (no read and no flush of
\* this program writes da).
C21_DiamondIsGlitchFree ==
  [][(prog = "diamond" \/ prog = "diamondfx") =>
       /\ \A i \in 1..Len(ev') :
            (ev'[i].type = "sees" /\ ev'[i].node \in Memos(prog))
              => ev'[i].v = Denote(Compute(ev'[i].node))
       /\ (lastOp'.op = "read" /\ lastOp'.node \in Memos(prog))
          => lastRead'.ok /\ lastRead'.v = Denote(Compute(lastOp'.node))
       /\ IsWrite(lastOp') => ~\E i \in 1..Len(ev') : ev'[i].type = "compute"]_vars

\* After da went 0 -> 1 -> 2 with dd read in between and db read alone, a
\* read of dd recomputes dd from db = 4 and dc = 3.
C21_Witness ==
  /\ prog = "diamond" /\ lastOp.op = "read" /\ lastOp.node = "dd"
  /\ value["da"].v = 2 /\ valueVersion["da"] = 2
  /\ lastRead.v = 7 /\ valueVersion["dd"] = 3
  /\ HasEv("compute", "dd") /\ HasEv("compute", "dc") /\ ~HasEv("compute", "db")
  /\ \E i \in 1..Len(ev) : ev[i] = Ev("sees", "db", 0, 4)
  /\ \E i \in 1..Len(ev) : ev[i] = Ev("sees", "dc", 0, 3)

\* C22: a cycle error does not poison the graph: while flag is set a read of
\* k1 or k2 throws the cycle error to the reader, and once a write has
\* cleared flag, which removes the cycle, a read of either memo recomputes
\* and returns its value (k1 = 0, k2 = 1) instead of rethrowing.
C22_CycleErrorDoesNotPoison ==
  (prog = "uncycle" /\ lastOp.op = "read" /\ lastOp.node \in Memos(prog))
    => IF value["flag"].v # 0
       THEN ~lastRead.ok /\ lastRead.err = "CycleDetected"
       ELSE lastRead.ok /\ lastRead.v = Denote(Compute(lastOp.node))

\* The positions of the trace holding events of the given type.
EvAt(type) == {i \in 1..Len(ev) : ev[i].type = type}

\* C23: a read of a writable or memoized signal attempted while the
\* notifying flag is set (here from the schedule function of a watch, called
\* by onDependencyChange, and from the compute function of a stale memo that
\* such a read revalidates, the memo being the active consumer) fails
\* synchronously with the error of recordAccess and leaves the edge to the
\* active consumer as it was; the error reaches the caller of the write
\* that started the notification.
C23_ReadDuringNotifyFails ==
  /\ \A i \in EvAt("readInNotifyEnd") :
       ev[i].k = ThrewReadDuringNotify /\ ev[i].v = 0
  /\ EvAt("readInNotify") # {}
     => /\ Cardinality(EvAt("readInNotifyEnd")) = Cardinality(EvAt("readInNotify"))
        /\ IsWrite(lastOp)
        /\ thrown = "ReadDuringNotify"
        /\ EvAt("sees") = {}
        /\ \A w \in Watches(prog) : <<"qm", w>> \notin DOMAIN dep

\* qm was read and wq was run; q.set(1) notifies qm and then wq, whose
\* schedule function reads the stale qm, whose compute function reads q
\* with qm as the active consumer.  Both reads fail, the edge between q and
\* qm keeps the versions of qm's first run, and set throws the error.
C23_Witness ==
  /\ prog = "sched" /\ lastOp = Op("set", "q", 1)
  /\ thrown = "ReadDuringNotify"
  /\ Cardinality(EvAt("readInNotifyEnd")) = 2
  /\ HasEv("compute", "qm") /\ value["qm"] = ERRORED
  /\ trackingVersion["qm"] = 2
  /\ dep[<<"q", "qm">>] = [producerVersion |-> 0, consumerVersion |-> 1]
  /\ value["q"].v = 1 /\ ~dirty["wq"]

\* C24: ambient state is restored on every exit path: every top-level read,
\* write, watch run, notify and flush, and every call nested in them (memo
\* recomputation, untracked, notifyConsumers, Watch.run, set inside a
\* callback), whether it returns or throws (user compute, callback, cycle
\* error, read during notification), leaves activeConsumer and notifying as
\* it found them; between handlers activeConsumer is null and notifying is
\* false.
C24_AmbientStateRestored ==
  /\ ambientRestored
  /\ activeConsumer = NoNode
  /\ notifying = FALSE

\* The flush in which the callback of et threw out of Watch.run and
\* executeQueue.
C24_Witness ==
  /\ prog = "throwing" /\ lastOp.op = "flush"
  /\ HasEv("callback", "et") /\ HasEv("uncaught", "et")
  /\ activeConsumer = NoNode /\ ambientRestored

\* A memo that was computed and has since had a version-bumping write to a
\* signal it read in its latest computation.
WrittenSince(n) ==
  /\ value[n].t = "VAL"
  /\ \E p \in LiveProducers(n) \cap Signals(prog) :
       dep[<<p, n>>].producerVersion # valueVersion[p]

ComputedNext(n) ==
  {ev'[i] : i \in {j \in 1..Len(ev') : ev'[j].type = "computed" /\ ev'[j].node = n}}

\* C26: when a memo recomputes, its previous cache was a value v_old and the
\* new result v_new satisfies equal(v_old, v_new), the memo keeps v_old
\* (reads return it), clears stale and leaves valueVersion alone; in every
\* other case (previous UNSET or ERRORED, compute threw, or unequal values)
\* it stores the new result and increments valueVersion by exactly one.
\* Stated for the steps in which the memo was computed once.  (A recompute
\* whose equal option is called and throws, C39, is not a case of this
\* statement.)
C26_EqualRecomputeKeepsValue ==
  [][\A n \in Memos(prog) :
       (CountEvNext("compute", n) = 1 /\ ComputedNext(n) # {})
         => LET e == CHOOSE x \in ComputedNext(n) : TRUE
                keeps == /\ value[n].t = "VAL"
                         /\ e.k = 1
                         /\ Equal(EqualOpt(n), value[n].v, e.v)
                equalThrew == /\ value[n].t = "VAL"
                              /\ e.k = 1
                              /\ EqualThrows(EqualOpt(n))
            IN equalThrew \/
               (/\ ~stale'[n]
                /\ IF keeps
                   THEN value'[n] = value[n] /\ valueVersion'[n] = valueVersion[n]
                   ELSE /\ value'[n] = IF e.k = 1 THEN Val(e.v) ELSE ERRORED
                        /\ valueVersion'[n] = valueVersion[n] + 1
                /\ (lastOp'.op = "read" /\ lastOp'.node = n /\ e.k = 1)
                   => lastRead'.ok /\ lastRead'.v = value'[n].v)]_vars

\* qg = qc() * 2 with equal (a, b) => a >= b: qc.set(2), read 4, qc.set(1),
\* and the read computes 2 but returns 4, at the same version.
C26_Witness ==
  /\ prog = "equalfn" /\ lastOp = Op("read", "qg", 0)
  /\ value["qc"].v = 1
  /\ \E i \in 1..Len(ev) : ev[i] = Ev("computed", "qg", 1, 2)
  /\ lastRead.v = 4 /\ value["qg"] = Val(4)
  /\ valueVersion["qg"] = 1 /\ ~stale["qg"]

\* C27: updateTracker (ut) depends only on the memo isEven (even).  When a
\* read of ut finds ut computed and isEven at the version ut saw last, after
\* revalidating isEven (which recomputes to an equal value if the source was
\* written), ut's compute function does not run: ut clears stale and keeps
\* its cache.  It runs, once, only when isEven's version has advanced, that
\* is when isEven's value changed.
C27_DownstreamMemoNotRecomputed ==
  [][( /\ prog = "parity"
       /\ lastOp'.op = "read" /\ lastOp'.node = "ut"
       /\ value["ut"].t = "VAL" )
     => /\ ~stale'["ut"] /\ ~stale'["even"]
        /\ LiveProducers("ut") = {"even"}
        /\ value'["even"] = Val(Denote(Compute("even")))
        /\ IF valueVersion'["even"] = dep[<<"even", "ut">>].producerVersion
           THEN /\ CountEvNext("compute", "ut") = 0
                /\ updateCounter' = updateCounter
                /\ value'["ut"] = value["ut"]
                /\ valueVersion'["ut"] = valueVersion["ut"]
                /\ value'["even"] = value["even"]
           ELSE /\ CountEvNext("compute", "ut") = 1
                /\ updateCounter' = updateCounter + 1
        /\ lastRead'.ok /\ lastRead'.v = updateCounter' - 1]_vars

\* ut was read, the source went 0 -> 2, and the next read of ut recomputes
\* isEven, finds it even as before, and leaves updateCounter at 1.
C27_Witness ==
  /\ prog = "parity" /\ lastOp = Op("read", "ut", 0)
  /\ value["n"].v = 2 /\ valueVersion["n"] = 1
  /\ HasEv("compute", "even") /\ ~HasEv("compute", "ut")
  /\ updateCounter = 1 /\ ~stale["ut"] /\ valueVersion["even"] = 1

\* The consumers holding a Dependency on p from their latest run, once the
\* step has ended.
LiveConsumersNext(p) ==
  {c \in NodesOf(prog) \ collected' :
     <<p, c>> \in DOMAIN dep' /\ dep'[<<p, c>>].consumerVersion = trackingVersion'[c]}

\* The nodes reached from the set of nodes by live edges, in at most k rounds
\* (only a memo has consumers, so as many rounds as the program has memos
\* reach them all).
RECURSIVE DependentsNext(_, _)
DependentsNext(nodes, k) ==
  IF k = 0 THEN nodes
  ELSE DependentsNext(nodes \cup UNION {LiveConsumersNext(p) : p \in nodes}, k - 1)

\* The nodes that depend on the signal n through live edges, directly or not.
TransitiveDependentsNext(n) ==
  DependentsNext(LiveConsumersNext(n), Cardinality(Memos(prog)))

\* C28 (on return): when set, update or mutate returns after bumping the
\* version of a signal, every memo that depends on the signal through live
\* edges, directly or through other memos, is stale, and every active effect
\* that does is dirty and in the pending queue (a watch made with its own
\* schedule function is dirty).
NotifiedOnReturn ==
  ( /\ IsWrite(lastOp')
    /\ thrown' = "none"
    /\ valueVersion'[lastOp'.node] # valueVersion[lastOp'.node] )
  => \A c \in TransitiveDependentsNext(lastOp'.node) :
       /\ c \in Memos(prog) => stale'[c]
       /\ c \in Watches(prog) => dirty'[c]
       /\ (c \in Effects(prog) /\ c \in activeEffects')
          => dirty'[c] /\ MapHas(executionQueue', c)

\* C28 (at quiescence): between two handlers, a memo with a live edge to a
\* stale memo is itself stale, and an active effect with a live edge to a
\* stale memo is dirty and in the pending queue.
QuiescentComplete ==
  \A m \in Memos(prog) :
    stale[m]
    => \A c \in LiveConsumers(m) :
         /\ c \in Memos(prog) => stale[c]
         /\ (c \in Effects(prog) /\ c \in activeEffects)
            => dirty[c] /\ MapHas(executionQueue, c)

\* C28: notification is complete and synchronous, in both forms: every step
\* satisfies the statement about a returning write and ends in a state
\* satisfying the statement about quiescence.
C28_NotificationIsComplete ==
  [][NotifiedOnReturn /\ QuiescentComplete']_vars

\* The diamond under an effect: a write of da returned, and db, dc, dd are
\* stale and the effect reading dd is dirty and queued.
C28_Witness ==
  /\ prog = "diamondfx" /\ lastOp.op = "set" /\ lastOp.node = "da"
  /\ thrown = "none"
  /\ LiveConsumers("da") = {"db", "dc"}
  /\ LiveConsumers("db") = {"dd"} /\ LiveConsumers("dd") = {"ed"}
  /\ stale["db"] /\ stale["dc"] /\ stale["dd"]
  /\ dirty["ed"] /\ MapHas(executionQueue, "ed")

\* A write of q returned with the watch wq, which has its own schedule
\* function, holding a live edge to q.
C28_WitnessSched ==
  /\ prog = "sched" /\ lastOp.op = "set" /\ lastOp.node = "q"
  /\ thrown = "none" /\ valueVersion["q"] > 0
  /\ LiveConsumers("q") = {"wq", "qm"}
  /\ dirty["wq"] /\ stale["qm"]

\* A first-in first-out queue driven by the trace of a step from its position
\* i on: a call of the scheduler for an active watch that is not in the queue
\* appends it, a run must be of the watch at the head and takes it out.
RECURSIVE Replay(_, _, _, _)
Replay(trace, queue, active, i) ==
  IF i > Len(trace) THEN [fifo |-> TRUE, queue |-> queue]
  ELSE LET e == trace[i]
       IN IF e.node \notin AllEffects THEN Replay(trace, queue, active, i + 1)
          ELSE IF e.type = "run"
          THEN IF queue # <<>> /\ Head(queue) = e.node
               THEN Replay(trace, Tail(queue), active, i + 1)
               ELSE [fifo |-> FALSE, queue |-> queue]
          ELSE IF e.type = "schedule" /\ e.node \in active /\ ~MapHas(queue, e.node)
          THEN Replay(trace, Append(queue, e.node), active, i + 1)
          ELSE Replay(trace, queue, active, i + 1)

\* C29: within a flush, watches are run in the order in which they were
\* enqueued, and a watch that is removed and enqueued again takes a new
\* position at the end of the queue: every step other than destroy and
\* resetEffects treats executionQueue as a first-in first-out queue, each
\* run being of the watch enqueued earliest among those waiting and each
\* enqueue going behind all of them.
C29_FlushRunsInEnqueueOrder ==
  [][lastOp'.op \notin {"destroy", "reset"}
       => Replay(ev', executionQueue, activeEffects', 1)
            = [fifo |-> TRUE, queue |-> executionQueue']]_vars

\* fa, fb and fc were enqueued in this order; the flush runs fa, then fb,
\* whose write enqueues fa again behind fc, then fc, then fa.
C29_Witness ==
  /\ prog = "fifo" /\ lastOp.op = "flush"
  /\ LET runs == SelectSeq(ev, LAMBDA e : e.type = "run")
     IN /\ Len(runs) = 4
        /\ runs[1].node = "fa" /\ runs[2].node = "fb"
        /\ runs[3].node = "fc" /\ runs[4].node = "fa"
  /\ execCount["fa"] >= 2
  /\ executionQueue = <<>>

\* A flush step in which no set, update or mutate made by a callback went
\* past the equality test.
FlushWithoutWrites ==
  lastOp'.op = "flush" /\ ~\E i \in 1..Len(ev') : ev'[i].type = "bump"

\* The flush ran every watch that was queued exactly once and no other, and
\* left executionQueue empty and pendingQueue cleared.
DrainedNext ==
  /\ \A w \in Effects(prog) :
       CountEvNext("run", w) = IF MapHas(executionQueue, w) THEN 1 ELSE 0
  /\ executionQueue' = <<>>
  /\ ~pendingQueue'

\* C30: a flush in which no effect callback writes a signal runs each queued
\* watch exactly once, and when it ends the pending queue is empty and the
\* pending-flush marker is cleared.
C30_FlushWithoutWritesDrains ==
  [][FlushWithoutWrites => DrainedNext]_vars

\* C30, for the flushes out of which no exception escapes: such a flush
\* without writes runs each queued watch exactly once and ends with the
\* queue empty and the marker cleared.
C30_DrainsUnlessThrown ==
  [][(FlushWithoutWrites /\ ~\E i \in 1..Len(ev') : ev'[i].type = "uncaught")
       => DrainedNext]_vars

\* A flush without writes that ran two queued watches once each and ended
\* with the queue empty and the marker cleared.
C30_DrainedWitness ==
  /\ prog = "throwing" /\ lastOp.op = "flush"
  /\ CountEv("run", "et") = 1 /\ CountEv("run", "eo") = 1
  /\ ~HasEv("uncaught", "et")
  /\ executionQueue = <<>> /\ ~pendingQueue

\* C31: at most one deferred flush is armed at any time, and whenever
\* executionQueue holds a watch (between two handlers, so outside a running
\* drain) a flush is armed that will run it.
C31_QueuedMeansArmed ==
  /\ microtasks <= 1
  /\ executionQueue # <<>> => microtasks = 1

\* C31, in the programs none of whose callbacks throws: at most one flush is
\* armed, it is armed exactly while pendingQueue is set, and a queued watch
\* means an armed flush.
C31_ArmedUnlessThrown ==
  prog # "throwing"
  => /\ microtasks <= 1
     /\ pendingQueue <=> microtasks = 1
     /\ executionQueue # <<>> => microtasks = 1

\* Two effects were enqueued in one batch and one flush is armed for both.
C31_ArmedWitness ==
  /\ prog = "writer" /\ Len(executionQueue) = 2
  /\ microtasks = 1 /\ pendingQueue

\* C32: the edge maps are symmetric: p.consumers holds an edge keyed by c
\* exactly when c.producers holds an edge keyed by p, and it is the one
\* Dependency object <<p, c>> on both sides.
C32_EdgeSymmetry ==
  \A p \in NodesOf(prog) : \A c \in NodesOf(prog) :
    /\ MapHas(consumers[p], c) <=> MapHas(producers[c], p)
    /\ MapHas(producers[c], p) <=> <<p, c>> \in DOMAIN dep

\* m has read cnd and one branch; the edge to the branch it no longer reads
\* was pruned by a traversal and is gone from both maps.
C32_Witness ==
  /\ prog = "cond" /\ HasEv("prune", "m")
  /\ MapHas(producers["m"], "cnd") /\ MapHas(consumers["cnd"], "m")
  /\ \E p \in {"a", "b"} :
       /\ ~MapHas(producers["m"], p) /\ ~MapHas(consumers[p], "m")
       /\ <<p, "m">> \notin DOMAIN dep

\* The edges of consumer c the freshness gate lets through.
LiveEdges(c) ==
  {p \in NodesOf(prog) : /\ <<p, c>> \in DOMAIN dep
                         /\ dep[<<p, c>>].consumerVersion = trackingVersion[c]}

\* The producers c read in its latest tracking pass.
AccessedBy(c) == {p \in NodesOf(prog) : <<p, c>> \in DOMAIN accessed}

\* C33, first half: after a consumer's tracking pass the edges whose
\* consumerVersion equals its trackingVersion are exactly the producers it
\* read in that pass, each with the valueVersion the producer had at its last
\* read in the pass.
C33_LiveEdgesAreThePassReads ==
  \A c \in NodesOf(prog) \ collected :
    /\ LiveEdges(c) = AccessedBy(c)
    /\ \A p \in LiveEdges(c) :
         dep[<<p, c>>].producerVersion = accessed[<<p, c>>]

\* An edge that passes the gate, whose endpoints are alive and whose consumer
\* starts no tracking pass in the step, is not pruned by the step.
LiveEdgesAreKept ==
  \A e \in DOMAIN dep :
    (/\ dep[e].consumerVersion = trackingVersion[e[2]]
     /\ trackingVersion'[e[2]] = trackingVersion[e[2]]
     /\ e[1] \notin collected /\ e[2] \notin collected)
    => e \in DOMAIN dep'

\* Every onDependencyChange of the step reaches its consumer c through an
\* edge that passes the gate: either an edge that was live before the step,
\* from a producer that notified earlier in the step, or c ran a tracking
\* pass earlier in the step.
HooksThroughLiveEdges ==
  \A i \in 1..Len(ev') :
    ev'[i].type = "onDependencyChange" =>
      LET c == ev'[i].node
      IN \/ \E j \in 1..(i - 1) :
              ev'[j].node = c /\ ev'[j].type \in {"compute", "callback"}
         \/ \E p \in LiveEdges(c) : \E j \in 1..(i - 1) :
              ev'[j].node = p /\ ev'[j].type \in {"bump", "onDependencyChange"}

\* C33: the freshness gate.  In every state the edges whose consumerVersion
\* equals the consumer's trackingVersion are exactly the producers read in
\* its latest tracking pass, with the valueVersion of the last read; no step
\* prunes a live edge between nodes that are alive; onDependencyChange is
\* invoked only through live edges.
C33_FreshnessGate ==
  /\ []C33_LiveEdgesAreThePassReads
  /\ [][LiveEdgesAreKept /\ HooksThroughLiveEdges]_vars

\* m switched branch in its second pass: cnd and one branch are live with
\* the versions just read, the edge to the other branch is not and has not
\* been pruned yet.
C33_Witness ==
  /\ prog = "cond" /\ trackingVersion["m"] >= 2
  /\ Cardinality(LiveEdges("m")) = 2 /\ "cnd" \in LiveEdges("m")
  /\ \E p \in {"a", "b"} :
       /\ <<p, "m">> \in DOMAIN dep
       /\ dep[<<p, "m">>].consumerVersion < trackingVersion["m"]

\* The step ran a whole notifyConsumers traversal of producer p: a signal
\* that bumped its version, or a memo that was notified while fresh.
TraversedNext(p) ==
  /\ thrown' = "none"
  /\ \/ HasEvNext("bump", p)
     \/ p \in Memos(prog) /\ ~stale[p] /\ HasEvNext("onDependencyChange", p)

\* C34: once a consumer has been collected, the next notifyConsumers
\* traversal of a producer it observed removes its edge from the producer's
\* consumers map, and no step invokes a hook of the collected consumer.
C34_DroppedConsumerIsPruned ==
  [][\A c \in collected :
       /\ ~HasEvNext("onDependencyChange", c)
       /\ ~HasEvNext("compute", c)
       /\ \A p \in NodesOf(prog) :
            (MapHas(consumers[p], c) /\ TraversedNext(p))
              => /\ ~MapHas(consumers'[p], c)
                 /\ <<p, c>> \notin DOMAIN dep']_vars

\* xe read xp and was collected; xs.set then notified xp, whose traversal
\* removed its edge to xe without notifying it.
C34_Witness ==
  /\ prog = "errchain" /\ "xe" \in collected
  /\ lastOp.op = "set" /\ lastOp.node = "xs"
  /\ HasEv("onDependencyChange", "xp") /\ HasEv("prune", "xe")
  /\ ~HasEv("onDependencyChange", "xe")
  /\ ~MapHas(consumers["xp"], "xe") /\ <<"xp", "xe">> \notin DOMAIN dep

\* d read c and was collected; c.set removed the edge to d.
C34_WitnessSignal ==
  /\ prog = "memo" /\ "d" \in collected
  /\ lastOp.op = "set" /\ lastOp.node = "c" /\ HasEv("prune", "d")
  /\ ~MapHas(consumers["c"], "d")

\* C35: a watch is dirty from the moment it is constructed: every watch that
\* exists and has not run yet (trackingVersion 0) has its dirty flag set.
C35_DirtyFromConstruction ==
  \A w \in Watches(prog) \cup created :
    trackingVersion[w] = 0 => dirty[w]

\* What the code does instead: the first notify() of a watch that has not
\* run finds it not dirty, calls the schedule function and sets dirty.
C35_FirstNotifySchedules ==
  [][\A w \in Watches(prog) :
       (lastOp'.op = "notify" /\ lastOp'.node = w /\ ~dirty[w])
         => HasEvNext("schedule", w)]_vars

\* C36: between two consecutive run() calls of a watch its schedule function
\* is invoked at most once, however many notifications arrive, and no watch
\* is in executionQueue more than once.
C36_ScheduledOncePerRun ==
  /\ \A w \in WatchNodes(prog) : hookCalls[w] <= 1
  /\ \A i \in 1..Len(executionQueue) : \A j \in 1..Len(executionQueue) :
       executionQueue[i] = executionQueue[j] => i = j

\* C36 for the watches of effect(), whose schedule function is queueEffect
\* and returns: one call per run at most, the call happens only on a watch
\* that is not dirty and leaves it dirty, and executionQueue has no watch
\* twice.
C36_EffectsScheduledOnce ==
  [][/\ \A w \in Effects(prog) :
          /\ hookCalls'[w] <= 1
          /\ (HasEvNext("schedule", w) /\ ~HasEvNext("run", w))
               => ~dirty[w] /\ dirty'[w]
     /\ \A i \in 1..Len(executionQueue') : \A j \in 1..Len(executionQueue') :
          executionQueue'[i] = executionQueue'[j] => i = j]_vars

\* Two writes reached a dirty effect between two flushes: queueEffect was
\* called once and the effect is queued once.
C36_Witness ==
  /\ prog = "effect" /\ writes = 2 /\ lastOp.op = "set"
  /\ dirty["ec"] /\ hookCalls["ec"] = 1 /\ trackingVersion["ec"] = 1
  /\ executionQueue = <<"ec">> /\ ~HasEv("schedule", "ec")

\* Every producer on a live edge of w still has, after the step, the
\* valueVersion the edge recorded.
DependenciesUnchangedNext(w) ==
  \A p \in LiveEdges(w) : valueVersion'[p] = dep[<<p, w>>].producerVersion

\* The step notified w after its run().
NotifiedAfterRunNext(w) ==
  \E i \in 1..Len(ev') : \E j \in (i + 1)..Len(ev') :
    /\ ev'[i].type = "run" /\ ev'[i].node = w
    /\ ev'[j].type = "onDependencyChange" /\ ev'[j].node = w

\* C37: a step that calls run() once on watch w.  If w has run before and
\* none of its live dependencies changed version, run() clears dirty and
\* invokes neither the cleanup nor the callback, trackingVersion stays and
\* the live edges stay live; if w never ran, the callback is invoked.  A
\* run() that directly follows a run() of the same watch invokes no callback.
C37_RunSkipsWhenNothingChanged ==
  [][/\ \A w \in WatchNodes(prog) :
          CountEvNext("run", w) = 1 =>
            /\ trackingVersion[w] = 0 => CountEvNext("callback", w) = 1
            /\ (trackingVersion[w] # 0 /\ DependenciesUnchangedNext(w))
                 => /\ ~HasEvNext("callback", w)
                    /\ ~HasEvNext("cleanup", w)
                    /\ trackingVersion'[w] = trackingVersion[w]
                    /\ NotifiedAfterRunNext(w) \/ ~dirty'[w]
                    /\ \A p \in LiveEdges(w) :
                         /\ <<p, w>> \in DOMAIN dep'
                         /\ dep'[<<p, w>>] = dep[<<p, w>>]
     /\ \A w \in Watches(prog) :
          (lastOp.op = "run" /\ lastOp.node = w /\ lastOp' = lastOp)
            => ~HasEvNext("callback", w)]_vars

\* promise_test.ts "should not run the callback if not dirty": notify(),
\* run(), run() has invoked the callback once, and the second run() left
\* the edge to q live.
C37_Witness ==
  /\ prog = "sched" /\ lastOp.op = "run" /\ lastOp.node = "wq"
  /\ HasEv("run", "wq") /\ ~HasEv("callback", "wq")
  /\ execCount["wq"] = 1 /\ trackingVersion["wq"] = 1 /\ ~dirty["wq"]
  /\ "q" \in LiveEdges("wq")

\* A dirty effect whose only dependency recomputed to an equal value was run
\* by the flush without its callback.
C37_WitnessEffect ==
  /\ prog = "parity" /\ lastOp.op = "flush"
  /\ HasEv("run", "ee") /\ ~HasEv("callback", "ee")
  /\ execCount["ee"] = 1 /\ ~dirty["ee"] /\ "even" \in LiveEdges("ee")

\* C38: reading a stale memo whose cache is an Error and none of whose live
\* dependencies advanced its valueVersion does not run its compute function:
\* the read clears stale, leaves valueVersion and the cached error as they
\* were and rethrows the cached error.
C38_StaleErrorIsRevalidated ==
  [][\A n \in Memos(prog) :
       (/\ lastOp'.op = "read" /\ lastOp'.node = n
        /\ stale[n] /\ value[n].t = "ERRORED"
        /\ LiveEdges(n) # {} /\ DependenciesUnchangedNext(n))
       => /\ ~HasEvNext("compute", n)
          /\ ~stale'[n]
          /\ valueVersion'[n] = valueVersion[n]
          /\ value'[n] = value[n] /\ error'[n] = error[n]
          /\ ~lastRead'.ok /\ lastRead'.err = error[n]]_vars

\* xe threw while xs was even; xs moved to another even number, xp was
\* recomputed to an equal value and the read of xe rethrew the cached error
\* without running xe's compute function.
C38_Witness ==
  /\ prog = "errchain" /\ lastOp.op = "read" /\ lastOp.node = "xe"
  /\ value["xs"].v = 2 /\ HasEv("compute", "xp") /\ ~HasEv("compute", "xe")
  /\ value["xe"].t = "ERRORED" /\ ~stale["xe"] /\ valueVersion["xe"] = 1
  /\ ~lastRead.ok /\ lastRead.err = "UserError"

\* C39: between two handlers no compute function is executing, and then no
\* memo's cache is COMPUTING, and no read has returned the COMPUTING marker
\* as a value.
C39_NoComputingAtRest ==
  /\ \A n \in Memos(prog) : value[n].t # "COMPUTING"
  /\ (lastOp.op = "read" /\ lastOp.node \in Memos(prog) /\ lastRead.ok)
       => lastRead.v # SymbolAsValue

\* C39, in the programs whose equal options return: every recompute that
\* started, also one whose compute function threw or that a cycle error cut
\* off, has left a value or an Error.
C39_NoComputingUnlessEqualThrows ==
  prog # "eqthrow"
  => /\ \A n \in Memos(prog) : value[n].t # "COMPUTING"
     /\ (lastOp.op = "read" /\ lastOp.node \in Memos(prog) /\ lastRead.ok)
          => lastRead.v # SymbolAsValue

\* A compute function threw and a cycle was cut off, and the caches hold
\* Errors.
C39_SettledWitness ==
  /\ prog = "uncycle" /\ HasEv("compute", "k1") /\ HasEv("compute", "k2")
  /\ value["k1"].t = "ERRORED" /\ value["k2"].t = "ERRORED"

\* After the equal option threw, a read of the memo reports a cycle although
\* no compute function is running.
C39_NoPhantomCycle ==
  (prog = "eqthrow" /\ lastOp.op = "read") => lastRead.err # "CycleDetected"

\* C40: each cleanup function returned by an effect callback is invoked at
\* most once over the effect's lifetime, whatever the runs and destroy()
\* calls.
C40_CleanupAtMostOnce == cleanupRepeated = {}

\* C40 for destroy() called from inside the effect's own callback: the
\* cleanup returned by the previous execution is invoked once.
C40_SelfDestroyCleansOnce ==
  prog = "selfdestroy" => cleanupRepeated = {}

\* C40 for the programs that never call destroy(): every cleanup function
\* is invoked at most once, before the next execution of the callback.
C40_RunsCleanOnce ==
  (Destroyable(prog) = {} /\ prog # "selfdestroy") => cleanupRepeated = {}

\* An effect ran three times and the cleanups of its first two executions
\* were invoked once each.
C40_RunsWitness ==
  /\ prog = "parity" /\ execCount["ee"] = 3
  /\ cleanupsDone["ee"] = {1, 2} /\ cleanupFn["ee"] = 3
  /\ cleanupRepeated = {}

====
